---- MODULE Spec2Model ----
(***************************************************************************)
(* Access-control and report-lifecycle rules of the gym progress report    *)
(* service: the request handlers under src/src/pages/api and the storage   *)
(* constraints and triggers of src/supabase/migrations.                    *)
(*                                                                         *)
(* Modelling decisions                                                     *)
(*  - Storage is the Postgres schema of the migrations: primary keys,      *)
(*    the unique key of reports and the before-insert trigger that sets    *)
(*    week_number and year are enforced.  Row level security is not        *)
(*    modelled (the credentials of the storage client are not part of      *)
(*    the sources); authorisation is what the handlers decide.             *)
(*  - Storage calls do not fail for infrastructure reasons, except the     *)
(*    inserts whose failure a handler handles in a way of its own: the     *)
(*    inserts of the create handlers and of the upload handler take a      *)
(*    parameter saying whether they go through.  Otherwise the only        *)
(*    storage errors are constraint violations.  The object store and      *)
(*    the invitation service are external and may fail.                    *)
(*  - The server clock and the database clock agree, run in UTC and have   *)
(*    millisecond resolution.  Time is milliseconds since 2025-03-05       *)
(*    00:00 UTC; requests arrive at the instants Instant(k) of a schedule. *)
(*    Instants from LateEpoch on stand for the instants RetentionDays      *)
(*    later (the retention period in milliseconds exceeds 32-bit           *)
(*    integers); EraOf and MsInEra decode them.                            *)
(*  - A nullable column holds <<>> (null) or <<v>>.                        *)
(*  - Generated identifiers (crypto.randomUUID) are the position of the    *)
(*    row in its table.  Rows of reports and report_images are never       *)
(*    physically removed; the create handlers remove the rows of users,    *)
(*    trainers and clients they inserted when a later insert fails.        *)
(***************************************************************************)
EXTENDS Integers, Sequences, FiniteSets, TLC

VARIABLES
    clock,          \* index of the current instant
    users,          \* table users: id -> row or NoRow
    trainers,       \* table trainers: id -> row or NoRow
    clients,        \* table clients: id -> row or NoRow
    trainer_client, \* table trainer_client: <<trainer_id, client_id>> -> row or NoRow
    reports,        \* table reports: sequence of rows, id = position
    report_images,  \* table report_images: sequence of rows, id = position
    inflight,       \* submit calls between their quota query and their insert
    resp            \* the response of the last request

vars ==
    <<clock, users, trainers, clients, trainer_client, reports, report_images, inflight, resp>>

-----------------------------------------------------------------------------
(* Bounds *)

MaxClock == 3
MaxDays == 2
MaxReports == 3
MaxImageRows == 4
MaxInflight == 2

-----------------------------------------------------------------------------
(* Values *)

Null == <<>>
Some(v) == <<v>>
IsNull(x) == x = <<>>
Val(x) == x[1]

NoRow == [absent |-> TRUE]

Anon == "anon"
UserIds == {"a1", "t1", "t2", "c1", "c2"}
ClientIds == {"c1", "c2"}
TrainerIds == {"t1", "t2"}
Callers == UserIds \cup {Anon}

\* The identifiers crypto.randomUUID hands to the clients and the trainers
\* created later.
NewClientIds == {"c3"}
NewTrainerIds == {"t3"}
AllUserIds == UserIds \cup NewClientIds \cup NewTrainerIds

\* The phone number a user of UserIds registered with.
PhoneOf(u) == "tel-" \o u

MeasurementFields ==
    {"weight", "waist", "chest", "biceps_left", "biceps_right", "thigh_left", "thigh_right"}
ContentFields == MeasurementFields \cup {"cardio_days", "note"}

-----------------------------------------------------------------------------
(* Time *)

OneHourMs == 60 * 60 * 1000
MsPerDay == 24 * 60 * 60 * 1000

\* Day number of the epoch (2025-03-05), counted from 2024-01-01, a Monday.
EpochDay == 366 + 31 + 28 + 4

\* The instants at which requests arrive: 08:00:00.000, 08:59:59.999 and
\* 09:00:00.000 on Wednesday 2025-03-05, then on Monday 2025-03-10 and on
\* each following day.
SlotDay(i) == IF i = 0 THEN 0 ELSE 4 + i
SlotOffset(j) == IF j = 0 THEN 0 ELSE IF j = 1 THEN OneHourMs - 1 ELSE OneHourMs
EarlyInstant(k) == SlotDay((k - 1) \div 3) * MsPerDay + 8 * OneHourMs + SlotOffset((k - 1) % 3)

\* interval '180 days' of cleanup_old_report_images.
RetentionDays == 180

\* The model checker's integers have 32 bits, and two instants
\* RetentionDays apart do not both fit as milliseconds since one epoch.  A
\* timestamp of the later era is therefore held as LateEpoch plus the
\* milliseconds since 2025-03-05 00:00 UTC + RetentionDays; the order of
\* timestamps is that of the instants they stand for.
LateEpoch == 2^30
EraOf(t) == IF t >= LateEpoch THEN 1 ELSE 0
MsInEra(t) == t - EraOf(t) * LateEpoch

\* t - interval '180 days': for a timestamp of the later era the
\* timestamp of the first era with the same milliseconds, for one of the
\* first era a value before every timestamp of the model.
MinusRetention(t) == t - LateEpoch

\* The schedule goes on with the same instants RetentionDays later, held
\* by the clock values Late(1), Late(2), ...
Late(j) == 100 + j
Instant(k) ==
    IF k > Late(0) THEN LateEpoch + EarlyInstant(k - Late(0))
    ELSE EarlyInstant(k)

Now == Instant(clock)

IsLeap(y) == (y % 4 = 0 /\ y % 100 # 0) \/ y % 400 = 0
DaysInYear(y) == IF IsLeap(y) THEN 366 ELSE 365

RECURSIVE CivilFrom(_, _)
CivilFrom(n, y) ==
    IF n < DaysInYear(y) THEN [year |-> y, dayOfYear |-> n + 1]
    ELSE CivilFrom(n - DaysInYear(y), y + 1)

\* Calendar year and day of the year of day number n.
Civil(n) == CivilFrom(n, 2024)

DayNumber(t) == EpochDay + EraOf(t) * RetentionDays + (MsInEra(t) \div MsPerDay)

\* getCurrentWeekInfo at instant t.
getCurrentWeekInfo(t) ==
    LET c == Civil(DayNumber(t))
        dayOfYear == c.dayOfYear
    IN  [year |-> c.year, weekNumber |-> (dayOfYear + 6) \div 7]

\* extract(week from d): the ISO 8601 week, that of the Thursday of d's week.
ExtractWeek(n) ==
    LET thursday == n - (n % 7) + 3
    IN  ((Civil(thursday).dayOfYear - 1) \div 7) + 1

\* extract(year from d): the calendar year.
ExtractYear(n) == Civil(n).year

\* Trigger set_report_week_and_year, before insert on reports.
set_report_week_and_year(row) ==
    [row EXCEPT !.week_number = ExtractWeek(DayNumber(row.created_at)),
                !.year = ExtractYear(DayNumber(row.created_at))]

\* Variant: the window includes the instant exactly one hour after createdAt.
canEditReport_NoStrict(createdAt, sequence, t) ==
    IF sequence # 0 THEN FALSE ELSE createdAt >= t - OneHourMs

\* Variant: the window ignores the sequence.
canEditReport_NoSequence(createdAt, sequence, t) ==
    createdAt > t - OneHourMs

\* canEditReport evaluated at instant t.
canEditReport(createdAt, sequence, t) ==
    IF sequence # 0 THEN FALSE ELSE createdAt > t - OneHourMs

-----------------------------------------------------------------------------
(* Identity *)

NoUser == [none |-> TRUE]

\* getAuthenticatedUser: the session's user, looked up among the
\* non-deleted rows of users.
\* Variant: the lookup of the session's user does not filter deleted rows.
getAuthenticatedUser_WithDeleted(u) ==
    IF u \in AllUserIds /\ users[u] # NoRow
    THEN [id |-> u, role |-> users[u].role]
    ELSE NoUser

getAuthenticatedUser(u) ==
    IF u \in AllUserIds /\ users[u] # NoRow /\ IsNull(users[u].deleted_at)
    THEN [id |-> u, role |-> users[u].role]
    ELSE NoUser

\* The query "users where id = clientId and role = 'client' and deleted_at is null".
ClientExists(clientId) ==
    /\ clientId \in AllUserIds
    /\ users[clientId] # NoRow
    /\ users[clientId].role = "client"
    /\ IsNull(users[clientId].deleted_at)

\* The query "users where id = trainerId and role = 'trainer' and deleted_at is null".
TrainerExists(trainerId) ==
    /\ trainerId \in AllUserIds
    /\ users[trainerId] # NoRow
    /\ users[trainerId].role = "trainer"
    /\ IsNull(users[trainerId].deleted_at)

\* The query "trainer_client where trainer_id, client_id and is_active = true".
ActiveAssignment(trainerId, clientId) ==
    /\ trainer_client[<<trainerId, clientId>>] # NoRow
    /\ trainer_client[<<trainerId, clientId>>].is_active

-----------------------------------------------------------------------------
(* Responses *)

NoClient == ""

Response(op, u, clientId, reportId, imageId, status, images) ==
    [op |-> op, user |-> u, client |-> clientId, report |-> reportId,
     image |-> imageId, status |-> status, images |-> images]

Idle == Response("none", Anon, NoClient, 0, 0, 0, <<>>)

-----------------------------------------------------------------------------
(* Request bodies and their validation *)

FieldMax(f) ==
    IF f = "weight" THEN 1000
    ELSE IF f \in {"waist", "chest"} THEN 500
    ELSE IF f \in {"biceps_left", "biceps_right"} THEN 200
    ELSE IF f \in {"thigh_left", "thigh_right"} THEN 300
    ELSE 7

\* SubmitReportSchema and EditReportSchema accept the same bodies: every
\* field optional, numbers within their range, the note a string of at most
\* 1000 characters, unknown keys dropped.  A body maps the fields present
\* to <<v>>, or to <<>> for a JSON null, which no field accepts.
ReportSchema(body) ==
    \A f \in DOMAIN body \cap ContentFields :
        /\ body[f] # Null
        /\ IF f = "note" THEN Len(Val(body[f])) <= 1000
           ELSE Val(body[f]) >= 0 /\ Val(body[f]) <= FieldMax(f)

SubmitReportSchema(body) == ReportSchema(body)
EditReportSchema(body) == ReportSchema(body)

\* The JavaScript expression  reportData.f || null.
OrNull(body, f) ==
    IF f \notin DOMAIN body THEN Null
    ELSE IF f = "note" THEN (IF Val(body[f]) = "" THEN Null ELSE body[f])
    ELSE IF Val(body[f]) = 0 THEN Null ELSE body[f]

-----------------------------------------------------------------------------
(* Table reports *)

ReportIds == 1..Len(reports)

\* A report id that names a row whose deleted_at is null.
LiveReport(reportId) ==
    reportId \in ReportIds /\ IsNull(reports[reportId].deleted_at)

\* Variant: the query leaves out the filter on deleted_at.
ExistingReports_WithDeleted(clientId, year, weekNumber) ==
    {i \in ReportIds :
        /\ reports[i].client_id = clientId
        /\ reports[i].year = year
        /\ reports[i].week_number = weekNumber}

\* select ... from reports where client_id, year, week_number and
\* deleted_at is null: the ids of the rows found.
ExistingReports(clientId, year, weekNumber) ==
    {i \in ReportIds :
        /\ reports[i].client_id = clientId
        /\ reports[i].year = year
        /\ reports[i].week_number = weekNumber
        /\ IsNull(reports[i].deleted_at)}

\* Variant: storage without the unique key.
UniqueKeyTaken_Off(row) == FALSE

\* unique (client_id, week_number, year, sequence): whether a stored row,
\* deleted or not, already holds the key of row.
UniqueKeyTaken(row) ==
    \E i \in ReportIds :
        /\ reports[i].client_id = row.client_id
        /\ reports[i].week_number = row.week_number
        /\ reports[i].year = row.year
        /\ reports[i].sequence = row.sequence

\* The row the insert of POST stores: created_at defaults to now(), the
\* trigger overwrites week_number and year.
NewReportRow(clientId, year, weekNumber, sequence, body, t) ==
    set_report_week_and_year(
        [client_id |-> clientId,
         created_at |-> t,
         year |-> year,
         week_number |-> weekNumber,
         sequence |-> sequence,
         content |-> [f \in ContentFields |-> OrNull(body, f)],
         deleted_at |-> Null])

\* select ... from report_images where report_id and is_deleted = false
\* order by created_at ascending (rows of equal created_at in id order).
RECURSIVE ImagesUpTo(_, _)
ImagesUpTo(reportId, n) ==
    IF n = 0 THEN <<>>
    ELSE IF report_images[n].report_id = reportId /\ ~report_images[n].is_deleted
         THEN Append(ImagesUpTo(reportId, n - 1), n)
         ELSE ImagesUpTo(reportId, n - 1)

\* Variant: the query orders by created_at descending.
RECURSIVE ImagesDownFrom(_, _)
ImagesDownFrom(reportId, n) ==
    IF n = 0 THEN <<>>
    ELSE IF report_images[n].report_id = reportId /\ ~report_images[n].is_deleted
         THEN <<n>> \o ImagesDownFrom(reportId, n - 1)
         ELSE ImagesDownFrom(reportId, n - 1)

LiveImages_Descending(reportId) == ImagesDownFrom(reportId, Len(report_images))

\* Variant: the query leaves out the filter on is_deleted.
LiveImages_WithDeleted(reportId) ==
    SelectSeq([i \in 1..Len(report_images) |-> i],
              LAMBDA i : report_images[i].report_id = reportId)

LiveImages(reportId) == ImagesUpTo(reportId, Len(report_images))

-----------------------------------------------------------------------------
(* Access checks *)

\* checkReportAccess of clients/[clientId]/reports: may the user read the
\* reports of clientId.
checkClientReportsAccess(userId, userRole, clientId) ==
    IF userRole = "super_admin" THEN TRUE
    ELSE IF userRole = "client" /\ userId = clientId THEN TRUE
    ELSE IF userRole = "trainer" THEN ActiveAssignment(userId, clientId)
    ELSE FALSE

\* checkTrendsAccess.
checkTrendsAccess(userId, userRole, clientId) ==
    IF userRole = "super_admin" THEN TRUE
    ELSE IF userRole = "client" /\ userId = clientId THEN TRUE
    ELSE IF userRole = "trainer" THEN ActiveAssignment(userId, clientId)
    ELSE FALSE

\* Variant: for a trainer any assignment row counts, active or not.
checkClientAccess_AnyRow(userId, userRole, clientId) ==
    IF userRole = "super_admin" THEN TRUE
    ELSE IF userRole = "client" /\ userId = clientId THEN TRUE
    ELSE IF userRole = "trainer" THEN trainer_client[<<userId, clientId>>] # NoRow
    ELSE FALSE

\* checkClientAccess of clients/[clientId].
checkClientAccess(userId, userRole, clientId) ==
    IF userRole = "super_admin" THEN TRUE
    ELSE IF userRole = "client" /\ userId = clientId THEN TRUE
    ELSE IF userRole = "trainer" THEN ActiveAssignment(userId, clientId)
    ELSE FALSE

\* Variant: every client may access every report.
checkReportAccess_AnyClient(userId, userRole, reportId) ==
    IF ~LiveReport(reportId) THEN FALSE
    ELSE IF userRole = "super_admin" THEN TRUE
    ELSE IF userRole = "client" THEN TRUE
    ELSE IF userRole = "trainer" THEN ActiveAssignment(userId, reports[reportId].client_id)
    ELSE FALSE

\* checkReportAccess of reports/[reportId]: hasAccess.
checkReportAccess(userId, userRole, reportId) ==
    IF ~LiveReport(reportId) THEN FALSE
    ELSE IF userRole = "super_admin" THEN TRUE
    ELSE IF userRole = "client" /\ userId = reports[reportId].client_id THEN TRUE
    ELSE IF userRole = "trainer" THEN ActiveAssignment(userId, reports[reportId].client_id)
    ELSE FALSE

\* Variant: an actively assigned trainer may upload.
checkImageUploadAccess_Trainer(userId, userRole, reportId) ==
    IF ~LiveReport(reportId) THEN FALSE
    ELSE IF userRole = "client" /\ userId = reports[reportId].client_id THEN TRUE
    ELSE IF userRole = "super_admin" THEN TRUE
    ELSE IF userRole = "trainer" THEN ActiveAssignment(userId, reports[reportId].client_id)
    ELSE FALSE

\* Variant: the report is looked up without the filter on deleted_at.
checkImageUploadAccess_DeletedReport(userId, userRole, reportId) ==
    IF reportId \notin ReportIds THEN FALSE
    ELSE IF userRole = "client" /\ userId = reports[reportId].client_id THEN TRUE
    ELSE IF userRole = "super_admin" THEN TRUE
    ELSE FALSE

\* checkImageUploadAccess: hasAccess.
checkImageUploadAccess(userId, userRole, reportId) ==
    IF ~LiveReport(reportId) THEN FALSE
    ELSE IF userRole = "client" /\ userId = reports[reportId].client_id THEN TRUE
    ELSE IF userRole = "super_admin" THEN TRUE
    ELSE FALSE

ImageIds == 1..Len(report_images)

\* checkImageDeleteAccess: hasAccess.  The image is looked up among the rows
\* with is_deleted = false, joined to its report (deleted or not).
checkImageDeleteAccess(userId, userRole, imageId) ==
    IF ~(imageId \in ImageIds /\ ~report_images[imageId].is_deleted) THEN FALSE
    ELSE IF userRole = "super_admin" THEN TRUE
    ELSE IF userRole = "client"
            /\ userId = reports[report_images[imageId].report_id].client_id THEN TRUE
    ELSE FALSE

\* PATCH and DELETE of reports/[reportId]: "only the client owner (unless
\* super_admin)".
\* Variant: whoever may read the report may change it.
IsOwnerOrAdmin_AnyReader(au, reportId) == TRUE

\* Variant: no exception for super_admin.
IsOwnerOrAdmin_OwnerOnly(au, reportId) ==
    au.id = reports[reportId].client_id

IsOwnerOrAdmin(au, reportId) ==
    au.role = "super_admin" \/ au.id = reports[reportId].client_id

\* Variant: super_admin is held to the window as well.
EditWindowOpen_NoBypass(au, reportId, t) ==
    canEditReport(reports[reportId].created_at, reports[reportId].sequence, t)

\* Variant: a second report of the week closes the window of the first.
EditWindowOpen_SecondReport(au, reportId, t) ==
    au.role = "super_admin"
    \/ /\ canEditReport(reports[reportId].created_at, reports[reportId].sequence, t)
       /\ ~\E j \in ReportIds :
              /\ j # reportId
              /\ IsNull(reports[j].deleted_at)
              /\ reports[j].client_id = reports[reportId].client_id
              /\ reports[j].year = reports[reportId].year
              /\ reports[j].week_number = reports[reportId].week_number

\* PATCH: "within 1 hour and sequence 0", which super_admin bypasses.
EditWindowOpen(au, reportId, t) ==
    au.role = "super_admin"
    \/ canEditReport(reports[reportId].created_at, reports[reportId].sequence, t)

-----------------------------------------------------------------------------
(* POST /api/clients/{clientId}/reports *)

\* The checks of POST up to the quota check: the status of the error
\* thrown, or 0 when the handler goes on to insert.
SubmitStatus(u, clientId, body, t) ==
    LET au == getAuthenticatedUser(u)
        wk == getCurrentWeekInfo(t)
    IN  IF au = NoUser THEN 401
        ELSE IF au.role # "client" \/ au.id # clientId THEN 403
        ELSE IF ~ClientExists(clientId) THEN 404
        ELSE IF ~SubmitReportSchema(body) THEN 400
        ELSE IF Cardinality(ExistingReports(clientId, wk.year, wk.weekNumber)) >= 2 THEN 409
        ELSE 0

\* "Determine sequence number (0 or 1)": the number of rows the quota query found.
SubmitSequence(clientId, t) ==
    LET wk == getCurrentWeekInfo(t)
    IN  Cardinality(ExistingReports(clientId, wk.year, wk.weekNumber))

\* The response of POST, with the body it was called with.
SubmitResponse(u, clientId, reportId, status, body) ==
    [op |-> "submit", user |-> u, client |-> clientId, report |-> reportId, image |-> 0,
     status |-> status, images |-> <<>>, body |-> body]

\* The status POST gives a failed insert.
InsertErrorStatus == 500

\* The insert of POST and its response, for a call by u whose quota query
\* ran at instant t0 and found the sequence given.
SubmitInsert(u, clientId, sequence, body, t0) ==
    LET wk == getCurrentWeekInfo(t0)
        row == NewReportRow(clientId, wk.year, wk.weekNumber, sequence, body, Now)
    IN  IF UniqueKeyTaken(row)
        THEN /\ resp' = SubmitResponse(u, clientId, 0, InsertErrorStatus, body)
             /\ UNCHANGED reports
        ELSE /\ Len(reports) < MaxReports
             /\ reports' = Append(reports, row)
             /\ resp' = SubmitResponse(u, clientId, Len(reports) + 1, 201, body)

\* The handler run without interruption.
Submit(u, clientId, body) ==
    /\ IF SubmitStatus(u, clientId, body, Now) # 0
       THEN /\ resp' = SubmitResponse(u, clientId, 0,
                                      SubmitStatus(u, clientId, body, Now), body)
            /\ UNCHANGED reports
       ELSE SubmitInsert(u, clientId, SubmitSequence(clientId, Now), body, Now)
    /\ UNCHANGED <<clock, users, trainers, clients, trainer_client, report_images, inflight>>

NoCall == [idle |-> TRUE]

\* The handler up to the await of the quota query: it answers with an
\* error, or holds the instant of the query and the sequence it computed.
\* seen is history, read by no handler: the number of rows of reports when
\* the query ran.
SubmitBegin(u, clientId, body, slot) ==
    /\ inflight[slot] = NoCall
    /\ IF SubmitStatus(u, clientId, body, Now) # 0
       THEN /\ resp' = SubmitResponse(u, clientId, 0,
                                      SubmitStatus(u, clientId, body, Now), body)
            /\ UNCHANGED inflight
       ELSE /\ inflight' = [inflight EXCEPT ![slot] =
                    [user |-> u, client |-> clientId, body |-> body, at |-> Now,
                     sequence |-> SubmitSequence(clientId, Now),
                     seen |-> Len(reports)]]
            /\ resp' = Idle
    /\ UNCHANGED <<clock, users, trainers, clients, trainer_client, reports, report_images>>

\* The rest of the handler: the insert and the response.
SubmitFinish(slot) ==
    /\ inflight[slot] # NoCall
    /\ SubmitInsert(inflight[slot].user, inflight[slot].client, inflight[slot].sequence,
                    inflight[slot].body, inflight[slot].at)
    /\ inflight' = [inflight EXCEPT ![slot] = NoCall]
    /\ UNCHANGED <<clock, users, trainers, clients, trainer_client, report_images>>

-----------------------------------------------------------------------------
(* /api/reports/{reportId}: GET, PATCH, DELETE *)

GetStatus(u, reportId) ==
    LET au == getAuthenticatedUser(u)
    IN  IF au = NoUser THEN 401
        ELSE IF ~checkReportAccess(au.id, au.role, reportId) THEN 403
        ELSE IF ~LiveReport(reportId) THEN 404
        ELSE 200

GetReport(u, reportId) ==
    /\ resp' = Response("get", u, NoClient, reportId, 0, GetStatus(u, reportId),
                        IF GetStatus(u, reportId) = 200 THEN LiveImages(reportId) ELSE <<>>)
    /\ UNCHANGED <<clock, users, trainers, clients, trainer_client, reports, report_images, inflight>>

\* The fields of the parsed body that PATCH sends to the update.
UpdateFields(body) == DOMAIN body \cap ContentFields

\* The checks of PATCH: the status of the error thrown, or 200.
PatchStatus(u, reportId, body, t) ==
    LET au == getAuthenticatedUser(u)
    IN  IF au = NoUser THEN 401
        ELSE IF ~checkReportAccess(au.id, au.role, reportId) THEN 403
        ELSE IF ~LiveReport(reportId) THEN 404
        ELSE IF ~IsOwnerOrAdmin(au, reportId) THEN 403
        ELSE IF ~EditWindowOpen(au, reportId, t) THEN 403
        ELSE IF ~EditReportSchema(body) THEN 400
        ELSE IF UpdateFields(body) = {} THEN 400
        ELSE 200

\* Variant: the update writes every content field, null where the body
\* has none.
UpdatedContent_Replace(content, body) ==
    [f \in ContentFields |-> IF f \in UpdateFields(body) THEN body[f] ELSE Null]

\* update reports set <the fields present> where id = reportId.
UpdatedContent(content, body) ==
    [f \in ContentFields |-> IF f \in UpdateFields(body) THEN body[f] ELSE content[f]]

\* The response of PATCH, with the body it was called with.
EditResponse(u, reportId, status, images, body) ==
    [op |-> "edit", user |-> u, client |-> NoClient, report |-> reportId, image |-> 0,
     status |-> status, images |-> images, patch |-> body]

Patch(u, reportId, body) ==
    /\ IF PatchStatus(u, reportId, body, Now) = 200
       THEN /\ reports' = [reports EXCEPT ![reportId].content =
                                UpdatedContent(reports[reportId].content, body)]
            /\ resp' = EditResponse(u, reportId, 200, LiveImages(reportId), body)
       ELSE /\ resp' = EditResponse(u, reportId, PatchStatus(u, reportId, body, Now),
                                    <<>>, body)
            /\ UNCHANGED reports
    /\ UNCHANGED <<clock, users, trainers, clients, trainer_client, report_images, inflight>>

\* The checks of DELETE: the status of the error thrown, or 204.
DeleteStatus(u, reportId) ==
    LET au == getAuthenticatedUser(u)
    IN  IF au = NoUser THEN 401
        ELSE IF ~checkReportAccess(au.id, au.role, reportId) THEN 403
        ELSE IF ~LiveReport(reportId) THEN 404
        ELSE IF ~IsOwnerOrAdmin(au, reportId) THEN 403
        ELSE 204

DeleteReport(u, reportId) ==
    /\ IF DeleteStatus(u, reportId) = 204
       THEN reports' = [reports EXCEPT ![reportId].deleted_at = Some(Now)]
       ELSE UNCHANGED reports
    /\ resp' = Response("softDelete", u, NoClient, reportId, 0, DeleteStatus(u, reportId), <<>>)
    /\ UNCHANGED <<clock, users, trainers, clients, trainer_client, report_images, inflight>>

-----------------------------------------------------------------------------
(* GET /api/clients/{clientId}/reports and GET /api/clients/{clientId}/trends *)

\* The value of the query parameter metrics is absent (Null) or a string,
\* held as its pieces between commas, each piece a sequence of words and
\* blanks: "weight, waist" is <<<<"weight">>, <<" ", "waist">>>> and the
\* empty string is <<<<>>>>.
AllMetrics ==
    <<"weight", "waist", "chest", "biceps_left", "biceps_right", "thigh_left",
      "thigh_right", "cardio_days">>

Range(seq) == {seq[i] : i \in 1..Len(seq)}

RECURSIVE TrimStart(_)
TrimStart(piece) ==
    IF piece # <<>> /\ Head(piece) = " " THEN TrimStart(Tail(piece)) ELSE piece

RECURSIVE TrimEnd(_)
TrimEnd(piece) ==
    IF piece # <<>> /\ piece[Len(piece)] = " "
    THEN TrimEnd(SubSeq(piece, 1, Len(piece) - 1)) ELSE piece

RECURSIVE Joined(_)
Joined(piece) == IF piece = <<>> THEN "" ELSE Head(piece) \o Joined(Tail(piece))

\* metric.trim()
Trim(piece) == Joined(TrimEnd(TrimStart(piece)))

\* The transform of TrendsQuerySchema: undefined (Null) for an absent or
\* empty value, else the trimmed pieces.
TrendsQueryMetrics(val) ==
    IF IsNull(val) \/ Val(val) = <<<<>>>> THEN Null
    ELSE Some([i \in 1..Len(Val(val)) |-> Trim(Val(val)[i])])

\* The refine of TrendsQuerySchema.
TrendsQuerySchema(val) ==
    \/ IsNull(TrendsQueryMetrics(val))
    \/ Range(Val(TrendsQueryMetrics(val))) \subseteq Range(AllMetrics)

\* requestedMetrics = metrics || allMetrics
RequestedMetrics(val) ==
    IF IsNull(TrendsQueryMetrics(val)) THEN AllMetrics ELSE Val(TrendsQueryMetrics(val))

\* select ... from reports where client_id and deleted_at is null order by
\* created_at ascending: the ids of the rows among the first n, which are
\* stored in the order of their created_at.
RECURSIVE ReportsUpTo(_, _)
ReportsUpTo(clientId, n) ==
    IF n = 0 THEN <<>>
    ELSE IF reports[n].client_id = clientId /\ IsNull(reports[n].deleted_at)
         THEN Append(ReportsUpTo(clientId, n - 1), n)
         ELSE ReportsUpTo(clientId, n - 1)

ReportsAscending(clientId) == ReportsUpTo(clientId, Len(reports))

\* What the loop over requestedMetrics pushes for one report: the value of
\* the metric, once for each time the metric is requested, unless null.
RECURSIVE PushedFor(_, _, _)
PushedFor(reportId, requested, metric) ==
    IF requested = <<>> THEN <<>>
    ELSE (IF Head(requested) = metric /\ ~IsNull(reports[reportId].content[metric])
          THEN <<Val(reports[reportId].content[metric])>> ELSE <<>>)
         \o PushedFor(reportId, Tail(requested), metric)

\* The array of a metric after the loop over the reports.
RECURSIVE TrendArray(_, _, _)
TrendArray(ids, requested, metric) ==
    IF ids = <<>> THEN <<>>
    ELSE PushedFor(Head(ids), requested, metric)
         \o TrendArray(Tail(ids), requested, metric)

\* filteredTrends: the arrays of the requested metrics, the empty ones
\* removed.
TrendsDTO(clientId, val) ==
    LET requested == RequestedMetrics(val)
        ids == ReportsAscending(clientId)
    IN  [m \in {k \in Range(requested) : TrendArray(ids, requested, k) # <<>>} |->
            TrendArray(ids, requested, m)]

\* Variant: the query is validated before the caller is looked at.
TrendsStatus_ValidationFirst(u, clientId, val) ==
    LET au == getAuthenticatedUser(u)
    IN  IF ~TrendsQuerySchema(val) THEN 400
        ELSE IF au = NoUser THEN 401
        ELSE IF ~checkTrendsAccess(au.id, au.role, clientId) THEN 403
        ELSE IF ~ClientExists(clientId) THEN 404
        ELSE 200

TrendsStatus(u, clientId, val) ==
    LET au == getAuthenticatedUser(u)
    IN  IF au = NoUser THEN 401
        ELSE IF ~checkTrendsAccess(au.id, au.role, clientId) THEN 403
        ELSE IF ~ClientExists(clientId) THEN 404
        ELSE IF ~TrendsQuerySchema(val) THEN 400
        ELSE 200

\* The response of GET trends, with the value of metrics it was asked with.
TrendsResponse(u, clientId, val, status, trends) ==
    [op |-> "trends", user |-> u, client |-> clientId, report |-> 0, image |-> 0,
     status |-> status, images |-> <<>>, metrics |-> val, trends |-> trends]

TrendsOf(u, clientId, val) ==
    /\ resp' = TrendsResponse(u, clientId, val, TrendsStatus(u, clientId, val),
                    IF TrendsStatus(u, clientId, val) = 200
                    THEN TrendsDTO(clientId, val) ELSE <<>>)
    /\ UNCHANGED <<clock, users, trainers, clients, trainer_client, reports, report_images, inflight>>

\* GET trends without the parameter metrics.
Trends(u, clientId) == TrendsOf(u, clientId, Null)

\* The query parameters page and pageSize are absent (Null) or hold the
\* number z.coerce.number() makes of their text.
\* PaginationQuerySchema, extended by nothing in ReportsQuerySchema.
PaginationQuerySchema(page, pageSize) ==
    /\ IsNull(page) \/ Val(page) >= 1
    /\ IsNull(pageSize) \/ (Val(pageSize) >= 1 /\ Val(pageSize) <= 100)

DefaultPage == 1
DefaultPageSize == 20
ParsedPage(page) == IF IsNull(page) THEN DefaultPage ELSE Val(page)
ParsedPageSize(pageSize) == IF IsNull(pageSize) THEN DefaultPageSize ELSE Val(pageSize)

\* Variant: the range runs one row further.
getPaginationRange_OneMore(page, pageSize) ==
    [from |-> (page - 1) * pageSize, to |-> (page - 1) * pageSize + pageSize]

getPaginationRange(page, pageSize) ==
    [from |-> (page - 1) * pageSize, to |-> (page - 1) * pageSize + pageSize - 1]

calculatePagination(page, pageSize, totalItems) ==
    [page |-> page,
     pageSize |-> pageSize,
     totalPages |-> (totalItems + pageSize - 1) \div pageSize,
     totalItems |-> totalItems]

RECURSIVE Reversed(_)
Reversed(seq) == IF seq = <<>> THEN <<>> ELSE Append(Reversed(Tail(seq)), Head(seq))

\* select ... from reports where client_id and deleted_at is null order by
\* created_at descending.
ReportsDescending(clientId) == Reversed(ReportsAscending(clientId))

\* query.range(from, to): the rows at the offsets from..to, both included.
RangeOfRows(rows, from, to) ==
    SubSeq(rows, from + 1, IF to + 1 < Len(rows) THEN to + 1 ELSE Len(rows))

\* ReportListItemDTO: the columns selected, note not among them.
ReportListItemDTO(reportId) ==
    [id |-> reportId,
     client_id |-> reports[reportId].client_id,
     year |-> reports[reportId].year,
     week_number |-> reports[reportId].week_number,
     sequence |-> reports[reportId].sequence,
     content |-> [f \in ContentFields \ {"note"} |-> reports[reportId].content[f]],
     created_at |-> reports[reportId].created_at,
     deleted_at |-> reports[reportId].deleted_at]

ListStatus(u, clientId, page, pageSize) ==
    LET au == getAuthenticatedUser(u)
    IN  IF au = NoUser THEN 401
        ELSE IF ~checkClientReportsAccess(au.id, au.role, clientId) THEN 403
        ELSE IF ~ClientExists(clientId) THEN 404
        ELSE IF ~PaginationQuerySchema(page, pageSize) THEN 400
        ELSE 200

\* The response of GET reports, with the parameters it was asked with.
ListResponse(u, clientId, page, pageSize, status, data, meta) ==
    [op |-> "list", user |-> u, client |-> clientId, report |-> 0, image |-> 0,
     status |-> status, images |-> <<>>, page |-> page, pageSize |-> pageSize,
     data |-> data, meta |-> meta]

\* The range starts behind the last row: whether the query then answers
\* with no rows or with an error is decided outside this repository, and
\* rangeOk says which.
RangeBehindRows(clientId, page, pageSize) ==
    /\ getPaginationRange(page, pageSize).from > 0
    /\ getPaginationRange(page, pageSize).from >= Len(ReportsDescending(clientId))

ListOf(u, clientId, page, pageSize, rangeOk) ==
    /\ IF ListStatus(u, clientId, page, pageSize) # 200
       THEN resp' = ListResponse(u, clientId, page, pageSize,
                        ListStatus(u, clientId, page, pageSize), <<>>, <<>>)
       ELSE LET p == ParsedPage(page)
                s == ParsedPageSize(pageSize)
                rows == ReportsDescending(clientId)
                found == RangeOfRows(rows, getPaginationRange(p, s).from,
                                     getPaginationRange(p, s).to)
            IN  IF RangeBehindRows(clientId, p, s) /\ ~rangeOk
                THEN resp' = ListResponse(u, clientId, page, pageSize, 500, <<>>, <<>>)
                ELSE resp' = ListResponse(u, clientId, page, pageSize, 200,
                                [j \in 1..Len(found) |-> ReportListItemDTO(found[j])],
                                calculatePagination(p, s, Len(rows)))
    /\ UNCHANGED <<clock, users, trainers, clients, trainer_client, reports, report_images, inflight>>

\* GET reports without query parameters.
ListReports(u, clientId) == ListOf(u, clientId, Null, Null, TRUE)

-----------------------------------------------------------------------------
(* GET /api/clients/{clientId} *)

ClientStatus(u, clientId) ==
    LET au == getAuthenticatedUser(u)
    IN  IF au = NoUser THEN 401
        ELSE IF ~checkClientAccess(au.id, au.role, clientId) THEN 403
        ELSE IF ~ClientExists(clientId) THEN 404
        ELSE 200

GetClient(u, clientId) ==
    /\ resp' = Response("profile", u, clientId, 0, 0, ClientStatus(u, clientId), <<>>)
    /\ UNCHANGED <<clock, users, trainers, clients, trainer_client, reports, report_images, inflight>>

-----------------------------------------------------------------------------
(* POST /api/reports/{reportId}/images/upload-url *)

MaxImagesPerReport == 3
MaxImageBytes == 5 * 1024 * 1024

\* ImageUploadRequestSchema.
ImageUploadRequestSchema(contentType, size) ==
    /\ contentType \in {"image/jpeg", "image/png"}
    /\ size >= 1
    /\ size <= MaxImageBytes

\* The checks of the upload handler: the status of the error thrown, or
\* 200.  urlOk tells whether the object store issued the signed URL.
UploadStatus(u, reportId, contentType, size, urlOk) ==
    LET au == getAuthenticatedUser(u)
    IN  IF au = NoUser THEN 401
        ELSE IF ~checkImageUploadAccess(au.id, au.role, reportId) THEN 403
        ELSE IF ~ImageUploadRequestSchema(contentType, size) THEN 400
        ELSE IF Len(LiveImages(reportId)) >= MaxImagesPerReport THEN 400
        ELSE IF ~urlOk THEN 500
        ELSE 200

NewImageRow(reportId, imageId, contentType, size, t) ==
    [report_id |-> reportId,
     storage_path |-> <<"reports", reportId, imageId,
                        IF contentType = "image/jpeg" THEN "jpg" ELSE "png">>,
     size_bytes |-> size,
     width |-> Null,
     height |-> Null,
     created_at |-> t,
     is_deleted |-> FALSE,
     deleted_at |-> Null]

\* The status answered: a failed insert of the record (insertOk false)
\* fails the request.
UploadOutcome(u, reportId, contentType, size, urlOk, insertOk) ==
    IF UploadStatus(u, reportId, contentType, size, urlOk) = 200 /\ ~insertOk THEN 500
    ELSE UploadStatus(u, reportId, contentType, size, urlOk)

\* Variant: the record is inserted before the signed URL is asked for.
UploadedRows_InsertFirst(rows, row, urlOk, insertOk) ==
    IF insertOk THEN Append(rows, row) ELSE rows

\* report_images after the try block: the record is inserted once the
\* object store has issued the signed URL.
UploadedRows(rows, row, urlOk, insertOk) ==
    IF urlOk /\ insertOk THEN Append(rows, row) ELSE rows

\* The response of the upload handler: imageId and storagePath, 0 and
\* <<>> in an error response.
UploadResponse(u, reportId, imageId, status, storagePath) ==
    [op |-> "requestUpload", user |-> u, client |-> NoClient, report |-> reportId,
     image |-> imageId, status |-> status, images |-> <<>>, storagePath |-> storagePath]

RequestUploadOf(u, reportId, contentType, size, urlOk, insertOk) ==
    LET status == UploadOutcome(u, reportId, contentType, size, urlOk, insertOk)
        row == NewImageRow(reportId, Len(report_images) + 1, contentType, size, Now)
    IN  /\ IF UploadStatus(u, reportId, contentType, size, TRUE) = 200
           THEN /\ (urlOk /\ insertOk) => Len(report_images) < MaxImageRows
                /\ report_images' = UploadedRows(report_images, row, urlOk, insertOk)
           ELSE UNCHANGED report_images
        /\ resp' = UploadResponse(u, reportId,
                        IF status = 200 THEN Len(report_images) + 1 ELSE 0, status,
                        IF status = 200 THEN row.storage_path ELSE <<>>)
        /\ UNCHANGED <<clock, users, trainers, clients, trainer_client, reports, inflight>>

\* The upload handler with the insert of the record going through.
RequestUpload(u, reportId, contentType, size, urlOk) ==
    RequestUploadOf(u, reportId, contentType, size, urlOk, TRUE)

\* The upload handler up to the await of the query counting the images: it
\* answers with an error, or goes on with what it was called with.
UploadBegin(u, reportId, contentType, size, slot) ==
    /\ inflight[slot] = NoCall
    /\ IF UploadStatus(u, reportId, contentType, size, TRUE) # 200
       THEN /\ resp' = UploadResponse(u, reportId, 0,
                                UploadStatus(u, reportId, contentType, size, TRUE), <<>>)
            /\ UNCHANGED inflight
       ELSE /\ inflight' = [inflight EXCEPT ![slot] =
                    [user |-> u, report |-> reportId, contentType |-> contentType,
                     size |-> size]]
            /\ resp' = Idle
    /\ UNCHANGED <<clock, users, trainers, clients, trainer_client, reports, report_images>>

\* The rest of the upload handler: the signed URL, the insert of the record
\* and the response.  Nothing is counted again, and the table has no
\* constraint on the number of images of a report.
UploadFinish(slot, urlOk) ==
    /\ inflight[slot] # NoCall
    /\ IF urlOk
       THEN /\ Len(report_images) < MaxImageRows
            /\ report_images' = Append(report_images,
                    NewImageRow(inflight[slot].report, Len(report_images) + 1,
                                inflight[slot].contentType, inflight[slot].size, Now))
            /\ resp' = UploadResponse(inflight[slot].user, inflight[slot].report,
                                Len(report_images) + 1, 200,
                                NewImageRow(inflight[slot].report, Len(report_images) + 1,
                                            inflight[slot].contentType, inflight[slot].size,
                                            Now).storage_path)
       ELSE /\ resp' = UploadResponse(inflight[slot].user, inflight[slot].report,
                                0, 500, <<>>)
            /\ UNCHANGED report_images
    /\ inflight' = [inflight EXCEPT ![slot] = NoCall]
    /\ UNCHANGED <<clock, users, trainers, clients, trainer_client, reports>>

-----------------------------------------------------------------------------
(* DELETE /api/report-images/{imageId} *)

ImageDeleteStatus(u, imageId) ==
    LET au == getAuthenticatedUser(u)
    IN  IF au = NoUser THEN 401
        ELSE IF ~checkImageDeleteAccess(au.id, au.role, imageId) THEN 403
        ELSE 204

\* Variant: a failed removal from the object store fails the request.
ImageDeleteOutcome_StorageFails(u, imageId, storageOk) ==
    IF ImageDeleteStatus(u, imageId) = 204 /\ ~storageOk THEN 500
    ELSE ImageDeleteStatus(u, imageId)

\* The status answered.  storageOk tells whether the object store removed
\* the file; a removal that returns an error or throws (storageOk false) is
\* only logged.
ImageDeleteOutcome(u, imageId, storageOk) ==
    ImageDeleteStatus(u, imageId)

\* The response of DELETE, with what became of the file: "untouched" when
\* the handler did not reach the object store, else "removed" or "failed".
ImageDeleteResponse(u, imageId, status, storage) ==
    [op |-> "imageSoftDelete", user |-> u, client |-> NoClient, report |-> 0,
     image |-> imageId, status |-> status, images |-> <<>>, storage |-> storage]

DeleteImage(u, imageId, storageOk) ==
    /\ IF ImageDeleteStatus(u, imageId) = 204
       THEN report_images' = [report_images EXCEPT ![imageId].is_deleted = TRUE,
                                                   ![imageId].deleted_at = Some(Now)]
       ELSE UNCHANGED report_images
    /\ resp' = ImageDeleteResponse(u, imageId, ImageDeleteOutcome(u, imageId, storageOk),
                    IF ImageDeleteStatus(u, imageId) # 204 THEN "untouched"
                    ELSE IF storageOk THEN "removed" ELSE "failed")
    /\ UNCHANGED <<clock, users, trainers, clients, trainer_client, reports, inflight>>

-----------------------------------------------------------------------------
(* The retention sweep of report_images *)

\* Variant: the update also reaches the images exactly 180 days old.
cleanup_old_report_images_Inclusive(rows, t) ==
    [i \in 1..Len(rows) |->
        IF rows[i].created_at <= MinusRetention(t) /\ ~rows[i].is_deleted
        THEN [rows[i] EXCEPT !.is_deleted = TRUE, !.deleted_at = Some(t)]
        ELSE rows[i]]

\* Variant: the update leaves out "and not is_deleted".
cleanup_old_report_images_AllOld(rows, t) ==
    [i \in 1..Len(rows) |->
        IF rows[i].created_at < MinusRetention(t)
        THEN [rows[i] EXCEPT !.is_deleted = TRUE, !.deleted_at = Some(t)]
        ELSE rows[i]]

\* Function cleanup_old_report_images run at instant t: the table after
\* update report_images set is_deleted = true, deleted_at = now()
\* where created_at < now() - interval '180 days' and not is_deleted.
cleanup_old_report_images(rows, t) ==
    [i \in 1..Len(rows) |->
        IF rows[i].created_at < MinusRetention(t) /\ ~rows[i].is_deleted
        THEN [rows[i] EXCEPT !.is_deleted = TRUE, !.deleted_at = Some(t)]
        ELSE rows[i]]

\* The scheduler calls the function; it returns void.
Sweep ==
    /\ report_images' = cleanup_old_report_images(report_images, Now)
    /\ resp' = Response("sweep", Anon, NoClient, 0, 0, 0, <<>>)
    /\ UNCHANGED <<clock, users, trainers, clients, trainer_client, reports, inflight>>

-----------------------------------------------------------------------------
(* POST /api/trainers/{trainerId}/clients/{clientId}/activate, deactivate *)

AssignmentStatus(u, trainerId, clientId) ==
    LET au == getAuthenticatedUser(u)
    IN  IF au = NoUser THEN 401
        ELSE IF au.role # "super_admin" /\ au.id # trainerId THEN 403
        ELSE IF ~TrainerExists(trainerId) THEN 404
        ELSE IF ~ClientExists(clientId) THEN 404
        ELSE 200

\* The response of activate and deactivate names the pair.
AssignmentResponse(op, u, trainerId, clientId, status) ==
    [op |-> op, user |-> u, trainer |-> trainerId, client |-> clientId, report |-> 0,
     image |-> 0, status |-> status, images |-> <<>>]

\* Variant: the lookup of the existing assignment finds nothing.
existingAssignment_None(trainerId, clientId) == NoRow

\* "trainer_client where trainer_id and client_id", NoRow when there is none.
existingAssignment(trainerId, clientId) == trainer_client[<<trainerId, clientId>>]

\* primary key (trainer_id, client_id): whether a stored row holds the key.
PrimaryKeyTaken(trainerId, clientId) == trainer_client[<<trainerId, clientId>>] # NoRow

\* activate: update trainer_client set is_active = true, started_at = now
\* where trainer_id and client_id; insert of the same row when there is none.
ActivatedRow(t) == [is_active |-> TRUE, started_at |-> t]

\* Activate: the existing row is updated; without one a row is inserted,
\* which the primary key refuses when the pair is stored already.
Activate(u, trainerId, clientId) ==
    /\ IF AssignmentStatus(u, trainerId, clientId) # 200
       THEN /\ resp' = AssignmentResponse("activate", u, trainerId, clientId,
                                          AssignmentStatus(u, trainerId, clientId))
            /\ UNCHANGED trainer_client
       ELSE IF existingAssignment(trainerId, clientId) = NoRow
               /\ PrimaryKeyTaken(trainerId, clientId)
       THEN /\ resp' = AssignmentResponse("activate", u, trainerId, clientId, 500)
            /\ UNCHANGED trainer_client
       ELSE /\ trainer_client' = [trainer_client EXCEPT ![<<trainerId, clientId>>] =
                                      ActivatedRow(Now)]
            /\ resp' = AssignmentResponse("activate", u, trainerId, clientId, 200)
    /\ UNCHANGED <<clock, users, trainers, clients, reports, report_images, inflight>>

DeactivateStatus(u, trainerId, clientId) ==
    IF AssignmentStatus(u, trainerId, clientId) # 200
    THEN AssignmentStatus(u, trainerId, clientId)
    ELSE IF existingAssignment(trainerId, clientId) = NoRow THEN 404
    ELSE 200

\* Variant: the update writes nothing.
DeactivateUpdate_Noop(trainerId, clientId) == trainer_client

\* Variant: the update reaches every row of the client.
DeactivateUpdate_AllCoaches(trainerId, clientId) ==
    [p \in DOMAIN trainer_client |->
        IF p[2] = clientId /\ trainer_client[p] # NoRow
        THEN [trainer_client[p] EXCEPT !.is_active = FALSE]
        ELSE trainer_client[p]]

\* Variant: the update flips is_active.
DeactivateUpdate_Toggle(trainerId, clientId) ==
    [trainer_client EXCEPT ![<<trainerId, clientId>>].is_active = ~@]

\* Variant: the update also restarts started_at.
DeactivateUpdate_ResetStart(trainerId, clientId) ==
    [trainer_client EXCEPT ![<<trainerId, clientId>>] =
        [is_active |-> FALSE, started_at |-> Now]]

\* deactivate: update trainer_client set is_active = false where trainer_id
\* and client_id.
DeactivateUpdate(trainerId, clientId) ==
    [trainer_client EXCEPT ![<<trainerId, clientId>>].is_active = FALSE]

Deactivate(u, trainerId, clientId) ==
    /\ IF DeactivateStatus(u, trainerId, clientId) = 200
       THEN trainer_client' = DeactivateUpdate(trainerId, clientId)
       ELSE UNCHANGED trainer_client
    /\ resp' = AssignmentResponse("deactivate", u, trainerId, clientId,
                                  DeactivateStatus(u, trainerId, clientId))
    /\ UNCHANGED <<clock, users, trainers, clients, reports, report_images, inflight>>

-----------------------------------------------------------------------------
(* POST /api/clients *)

\* CreateClientSchema: fullName of 1 to 100 characters, phone of 1 to 20
\* characters, an optional well-formed email.  An email is the pair of its
\* local part and its domain.
CreateClientSchema(body) ==
    /\ "fullName" \in DOMAIN body
    /\ Len(body.fullName) >= 1 /\ Len(body.fullName) <= 100
    /\ "phone" \in DOMAIN body
    /\ Len(body.phone) >= 1 /\ Len(body.phone) <= 20
    /\ "email" \in DOMAIN body => (body.email[1] # "" /\ body.email[2] # "")

\* The rows of users, deleted or not.
UserRows == {id \in AllUserIds : users[id] # NoRow}

\* "users where phone (email) = ... and deleted_at is null" finds a row.
ExistingUserByPhone(phone) ==
    \E id \in UserRows : users[id].phone = Some(phone) /\ IsNull(users[id].deleted_at)

ExistingUserByEmail(email) ==
    \E id \in UserRows : users[id].email = Some(email) /\ IsNull(users[id].deleted_at)

\* users.phone and users.email are unique over all rows.
UserKeyTaken(body) ==
    \E id \in UserRows :
        \/ users[id].phone = Some(body.phone)
        \/ "email" \in DOMAIN body /\ users[id].email = Some(body.email)

\* The checks of POST and the insert into users: the status of the error
\* thrown, or 201.
CreateClientStatus(u, body) ==
    LET au == getAuthenticatedUser(u)
    IN  IF au = NoUser THEN 401
        ELSE IF au.role # "trainer" THEN 403
        ELSE IF ~CreateClientSchema(body) THEN 400
        ELSE IF ExistingUserByPhone(body.phone) THEN 409
        ELSE IF "email" \in DOMAIN body /\ ExistingUserByEmail(body.email) THEN 409
        ELSE IF UserKeyTaken(body) THEN 500
        ELSE 201

\* The response of the create handlers, with what the call met: the insert
\* that failed ("none" when every insert went through) and whether the
\* invitation was delivered.
CreateResponse(op, u, trainerId, clientId, status, failAt, inviteOk) ==
    [op |-> op, user |-> u, trainer |-> trainerId, client |-> clientId, report |-> 0,
     image |-> 0, status |-> status, images |-> <<>>, failed |-> failAt,
     invited |-> inviteOk]

\* insert into users of POST /api/clients.
NewClientUser(body) ==
    [role |-> "client",
     full_name |-> body.fullName,
     phone |-> Some(body.phone),
     email |-> IF "email" \in DOMAIN body THEN Some(body.email) ELSE Null,
     deleted_at |-> Null]

\* insert into clients: dateOfBirth || null, gender || null.
NewClientProfile(body) ==
    [date_of_birth |-> IF "dateOfBirth" \in DOMAIN body /\ body.dateOfBirth # ""
                       THEN Some(body.dateOfBirth) ELSE Null,
     gender |-> IF "gender" \in DOMAIN body /\ body.gender # ""
                THEN Some(body.gender) ELSE Null]

\* Variant: the cleanup deletes nothing.
Cleanup_Skipped(table, id) == table

\* Cleanup: supabase.from(table).delete().eq("id", id).
Cleanup(table, id) == [table EXCEPT ![id] = NoRow]

\* The user, the client profile and the active assignment to the calling
\* trainer are inserted under a fresh identifier.  failAt names the insert
\* that returns an error, after which the rows inserted before it are
\* deleted and the call fails; a failed invitation (inviteOk false, by
\* email only) is caught and logged.
CreateClientOf(u, body, failAt, inviteOk) ==
    /\ IF CreateClientStatus(u, body) # 201
       THEN /\ resp' = CreateResponse("createClient", u, "", NoClient,
                                      CreateClientStatus(u, body), "none", TRUE)
            /\ UNCHANGED <<users, clients, trainer_client>>
       ELSE \E id \in NewClientIds :
               /\ users[id] = NoRow
               /\ IF failAt = "clients"
                  THEN /\ users' = Cleanup([users EXCEPT ![id] = NewClientUser(body)], id)
                       /\ UNCHANGED <<clients, trainer_client>>
                       /\ resp' = CreateResponse("createClient", u, "", NoClient, 500,
                                                 failAt, TRUE)
                  ELSE IF failAt = "trainer_client"
                  THEN /\ users' = Cleanup([users EXCEPT ![id] = NewClientUser(body)], id)
                       /\ clients' = Cleanup([clients EXCEPT ![id] = NewClientProfile(body)], id)
                       /\ UNCHANGED trainer_client
                       /\ resp' = CreateResponse("createClient", u, "", NoClient, 500,
                                                 failAt, TRUE)
                  ELSE /\ users' = [users EXCEPT ![id] = NewClientUser(body)]
                       /\ clients' = [clients EXCEPT ![id] = NewClientProfile(body)]
                       /\ trainer_client' = [trainer_client EXCEPT ![<<u, id>>] =
                                                ActivatedRow(Now)]
                       /\ resp' = CreateResponse("createClient", u, u, id, 201, "none",
                                                 inviteOk \/ "email" \notin DOMAIN body)
    /\ UNCHANGED <<clock, trainers, reports, report_images, inflight>>

\* POST /api/clients with every insert and the invitation going through.
CreateClient(u, body) == CreateClientOf(u, body, "none", TRUE)

-----------------------------------------------------------------------------
(* POST /api/trainers *)

\* CreateTrainerSchema: fullName of 1 to 100 characters and a well-formed
\* email.
CreateTrainerSchema(body) ==
    /\ "fullName" \in DOMAIN body
    /\ Len(body.fullName) >= 1 /\ Len(body.fullName) <= 100
    /\ "email" \in DOMAIN body
    /\ body.email[1] # "" /\ body.email[2] # ""

\* The checks of POST and the insert into users: the status of the error
\* thrown, or 201.
CreateTrainerStatus(u, body) ==
    LET au == getAuthenticatedUser(u)
    IN  IF au = NoUser THEN 401
        ELSE IF au.role # "super_admin" THEN 403
        ELSE IF ~CreateTrainerSchema(body) THEN 400
        ELSE IF ExistingUserByEmail(body.email) THEN 409
        ELSE IF \E id \in UserRows : users[id].email = Some(body.email) THEN 500
        ELSE 201

NewTrainerUser(body) ==
    [role |-> "trainer",
     full_name |-> body.fullName,
     phone |-> Null,
     email |-> Some(body.email),
     deleted_at |-> Null]

\* Variant: a failed invitation is caught and logged, as in POST /api/clients.
InviteOutcome_Caught(inviteOk) == 201

\* await inviteUser(supabase, email) inside the handler's try: the
\* ApiException(500) inviteUser throws is re-thrown by the catch.
InviteOutcome(inviteOk) == IF inviteOk THEN 201 ELSE 500

\* The user and the trainer profile are inserted under a fresh identifier;
\* a failed insert into trainers (failAt) deletes the users row again.  The
\* invitation is sent after the inserts, and nothing is deleted when it
\* fails.
CreateTrainerOf(u, body, failAt, inviteOk) ==
    /\ IF CreateTrainerStatus(u, body) # 201
       THEN /\ resp' = CreateResponse("createTrainer", u, "", NoClient,
                                      CreateTrainerStatus(u, body), "none", TRUE)
            /\ UNCHANGED <<users, trainers>>
       ELSE \E id \in NewTrainerIds :
               /\ users[id] = NoRow
               /\ IF failAt = "trainers"
                  THEN /\ users' = Cleanup([users EXCEPT ![id] = NewTrainerUser(body)], id)
                       /\ UNCHANGED trainers
                       /\ resp' = CreateResponse("createTrainer", u, "", NoClient, 500,
                                                 failAt, TRUE)
                  ELSE /\ users' = [users EXCEPT ![id] = NewTrainerUser(body)]
                       /\ trainers' = [trainers EXCEPT ![id] = [bio |-> Null]]
                       /\ resp' = CreateResponse("createTrainer", u,
                                        IF InviteOutcome(inviteOk) = 201 THEN id ELSE "",
                                        NoClient, InviteOutcome(inviteOk), "none", inviteOk)
    /\ UNCHANGED <<clock, clients, trainer_client, reports, report_images, inflight>>

-----------------------------------------------------------------------------
(* /api/users/{id}: PATCH, DELETE; DELETE /api/clients/{clientId} *)

UserRoles == {"super_admin", "trainer", "client"}

\* "users where id and deleted_at is null" finds a row.
UserExists(id) ==
    id \in AllUserIds /\ users[id] # NoRow /\ IsNull(users[id].deleted_at)

\* updateData of PATCH: full_name from fullName (held as a piece of words
\* and blanks) trimmed, role from role.
UpdateUserFields(body) == DOMAIN body \cap {"fullName", "role"}

\* The checks of PATCH: the status of the error thrown, or 200.
PatchUserStatus(u, id, body) ==
    LET au == getAuthenticatedUser(u)
    IN  IF au = NoUser THEN 401
        ELSE IF au.role # "super_admin" THEN 403
        ELSE IF "fullName" \in DOMAIN body /\ Trim(body.fullName) = "" THEN 400
        ELSE IF "role" \in DOMAIN body /\ body.role \notin UserRoles THEN 400
        ELSE IF UpdateUserFields(body) = {} THEN 400
        ELSE IF ~UserExists(id) THEN 404
        ELSE 200

\* Variant: a change of role moves the extension row along.
UpdatedExtension_FollowsRole(table, id, body, role, row) ==
    IF "role" \notin DOMAIN body THEN table
    ELSE IF body.role = role THEN [table EXCEPT ![id] = IF @ = NoRow THEN row ELSE @]
    ELSE [table EXCEPT ![id] = NoRow]

\* PATCH updates the table users only.
UpdatedExtension(table, id, body, role, row) == table

\* update users set <updateData> where id.
UpdatedUser(row, body) ==
    [row EXCEPT !.full_name = IF "fullName" \in DOMAIN body
                              THEN Trim(body.fullName) ELSE @,
                !.role = IF "role" \in DOMAIN body THEN body.role ELSE @]

\* The response of PATCH, with the body it was called with.
UserResponse(op, u, id, status, body) ==
    [op |-> op, user |-> u, client |-> id, report |-> 0, image |-> 0,
     status |-> status, images |-> <<>>, patch |-> body]

PatchUser(u, id, body) ==
    /\ IF PatchUserStatus(u, id, body) = 200
       THEN /\ users' = [users EXCEPT ![id] = UpdatedUser(users[id], body)]
            /\ trainers' = UpdatedExtension(trainers, id, body, "trainer", [bio |-> Null])
            /\ clients' = UpdatedExtension(clients, id, body, "client",
                                           [date_of_birth |-> Null, gender |-> Null])
       ELSE UNCHANGED <<users, trainers, clients>>
    /\ resp' = UserResponse("updateUser", u, id, PatchUserStatus(u, id, body), body)
    /\ UNCHANGED <<clock, trainer_client, reports, report_images, inflight>>

\* The checks of DELETE /api/users/{id}: the status of the error thrown,
\* or 204.
DeleteUserStatus(u, id) ==
    LET au == getAuthenticatedUser(u)
    IN  IF au = NoUser THEN 401
        ELSE IF au.role # "super_admin" THEN 403
        ELSE IF ~UserExists(id) THEN 404
        ELSE 204

\* Variant: nobody is deleted.
SoftDeletedUser_Kept(row, t) == row

\* update users set deleted_at = now where id.
SoftDeletedUser(row, t) == [row EXCEPT !.deleted_at = Some(t)]

DeleteUser(u, id) ==
    /\ IF DeleteUserStatus(u, id) = 204
       THEN users' = [users EXCEPT ![id] = SoftDeletedUser(users[id], Now)]
       ELSE UNCHANGED users
    /\ resp' = Response("deleteUser", u, id, 0, 0, DeleteUserStatus(u, id), <<>>)
    /\ UNCHANGED <<clock, trainers, clients, trainer_client, reports, report_images, inflight>>

\* The checks of DELETE /api/clients/{clientId}: the status of the error
\* thrown, or 204.
DeleteClientStatus(u, clientId) ==
    LET au == getAuthenticatedUser(u)
    IN  IF au = NoUser THEN 401
        ELSE IF ~(\/ au.role = "super_admin"
                  \/ au.role = "trainer" /\ ActiveAssignment(au.id, clientId)) THEN 403
        ELSE IF ~ClientExists(clientId) THEN 404
        ELSE 204

DeleteClient(u, clientId) ==
    /\ IF DeleteClientStatus(u, clientId) = 204
       THEN users' = [users EXCEPT ![clientId] = SoftDeletedUser(users[clientId], Now)]
       ELSE UNCHANGED users
    /\ resp' = Response("deleteClient", u, clientId, 0, 0, DeleteClientStatus(u, clientId), <<>>)
    /\ UNCHANGED <<clock, trainers, clients, trainer_client, reports, report_images, inflight>>

-----------------------------------------------------------------------------
(* Time passes *)

\* The next instant of the schedule.
Tick ==
    /\ clock < MaxClock
    /\ clock' = clock + 1
    /\ resp' = Idle
    /\ UNCHANGED <<users, trainers, clients, trainer_client, reports, report_images, inflight>>

\* 08:00 of the next day of the schedule.
NextDay ==
    /\ (clock - 1) \div 3 + 1 < MaxDays
    /\ clock' = 3 * ((clock - 1) \div 3 + 1) + 1
    /\ resp' = Idle
    /\ UNCHANGED <<users, trainers, clients, trainer_client, reports, report_images, inflight>>

\* RetentionDays pass: an instant of the later part of the schedule.
HalfYearLater ==
    \E j \in 1..MaxClock :
        /\ clock < Late(j)
        /\ clock' = Late(j)
        /\ resp' = Idle
        /\ UNCHANGED <<users, trainers, clients, trainer_client, reports, report_images, inflight>>

-----------------------------------------------------------------------------
(* Inputs *)

FullBody == [weight |-> Some(70), cardio_days |-> Some(3), note |-> Some("first")]
InvalidBody == [cardio_days |-> Some(8)]

WeightPatch == [weight |-> Some(71)]
EmptyPatch == [unknown |-> Some(1)]
EditPatches == {WeightPatch, InvalidBody, EmptyPatch}
NullNotePatch == [note |-> Null]
NotePatch == [note |-> Some("second"), cardio_days |-> Some(5), unknown |-> Some(1)]

NewClientBody == [fullName |-> "Cleo", phone |-> PhoneOf("c3")]
NewClientWithEmail ==
    [fullName |-> "Cleo", phone |-> PhoneOf("c3"), email |-> <<"cleo", "gym.example">>]
TakenPhoneBody == [fullName |-> "Cleo", phone |-> PhoneOf("c1")]
NamelessBody == [fullName |-> "", phone |-> PhoneOf("c3")]

NewTrainerBody == [fullName |-> "Tara", email |-> <<"tara", "gym.example">>]
BadEmailBody == [fullName |-> "Tara", email |-> <<"tara", "">>]

RolePatches == {[role |-> r] : r \in UserRoles \cup {"coach"}}
NamePatches == {[fullName |-> <<" ", "Cleo", " ">>], [fullName |-> <<" ">>]}

CardioBody == [cardio_days |-> Some(2)]
LightBody == [weight |-> Some(68), waist |-> Some(80)]
ZeroBody == [weight |-> Some(0), cardio_days |-> Some(0), note |-> Some("")]

MetricsInputs ==
    {Null,
     Some(<<<<>>>>),
     Some(<<<<"weight">>>>),
     Some(<<<<"weight">>, <<" ", "cardio_days", " ">>>>),
     Some(<<<<"weight">>, <<"weight">>>>),
     Some(<<<<"height">>>>)}

PageInputs == {Null, Some(0), Some(1), Some(2), Some(3)}
PageSizeInputs == {Null, Some(0), Some(1), Some(2), Some(100), Some(101)}

ReportIdInputs == 1..MaxReports
ImageIdInputs == 1..MaxImageRows

-----------------------------------------------------------------------------
(* Specifications *)

\* Admin a1, coach t1 and clients c1 and c2 exist; c1 was created by t1, which
\* assigned it to t1 (POST /api/clients), c2 registered without a coach.
Init ==
    /\ clock = 1
    /\ users = [u \in AllUserIds |->
                   IF u \in UserIds
                   THEN [role |-> IF u = "a1" THEN "super_admin"
                                  ELSE IF u \in TrainerIds THEN "trainer" ELSE "client",
                         full_name |-> u,
                         phone |-> Some(PhoneOf(u)),
                         email |-> Null,
                         deleted_at |-> Null]
                   ELSE NoRow]
    /\ trainers = [u \in AllUserIds |->
                      IF u \in TrainerIds THEN [bio |-> Null] ELSE NoRow]
    /\ clients = [u \in AllUserIds |->
                     IF u \in ClientIds THEN [date_of_birth |-> Null, gender |-> Null]
                     ELSE NoRow]
    /\ trainer_client = [p \in AllUserIds \X AllUserIds |->
                            IF p = <<"t1", "c1">>
                            THEN [is_active |-> TRUE, started_at |-> 0]
                            ELSE NoRow]
    /\ reports = <<>>
    /\ report_images = <<>>
    /\ inflight = [s \in 1..MaxInflight |-> NoCall]
    /\ resp = Idle

\* Weekly quota: submissions and deletions over the days of the schedule,
\* requests served one at a time.
Next ==
    \/ NextDay
    \/ \E u \in Callers, c \in ClientIds, b \in {FullBody, InvalidBody} : Submit(u, c, b)
    \/ \E u \in ClientIds \cup {"a1"}, r \in ReportIdInputs : DeleteReport(u, r)

Spec == Init /\ [][Next]_vars

\* Weekly quota with submit calls interleaved at the await between the
\* quota query and the insert.
NextRace ==
    \/ NextDay
    \/ \E s \in 1..MaxInflight :
          /\ \A s2 \in 1..(s - 1) : inflight[s2] # NoCall
          /\ SubmitBegin("c1", "c1", FullBody, s)
    \/ \E s \in 1..MaxInflight : SubmitFinish(s)
    \/ DeleteReport("c1", 1)

SpecRace == Init /\ [][NextRace]_vars

\* The edit window: the instants of the first days of the schedule; client
\* c1 reports, every kind of principal edits.
NextEdit ==
    \/ Tick
    \/ Submit("c1", "c1", FullBody)
    \/ \E u \in UserIds, r \in ReportIdInputs : Patch(u, r, WeightPatch)
    \/ \E r \in ReportIdInputs : DeleteReport("c1", r)
    \/ Deactivate("t1", "t1", "c1")

SpecEdit == Init /\ [][NextEdit]_vars

\* The admin calls every operation on the reports the client submits and on
\* the images the admin attaches to them.  The admin's patch repeats the
\* submitted weight.
SamePatch == [weight |-> FullBody.weight]

NextAdmin ==
    \/ Submit("c1", "c1", FullBody)
    \/ \E c \in ClientIds : Submit("a1", c, FullBody)
    \/ \E r \in ReportIdInputs : Patch("a1", r, SamePatch)
    \/ \E r \in ReportIdInputs : DeleteReport("a1", r)
    \/ \E r \in ReportIdInputs : GetReport("a1", r)
    \/ \E c \in ClientIds : ListReports("a1", c)
    \/ \E c \in ClientIds : Trends("a1", c)
    \/ \E r \in ReportIdInputs : RequestUpload("a1", r, "image/jpeg", 1024, TRUE)
    \/ \E i \in ImageIdInputs : DeleteImage("a1", i, TRUE)

SpecAdmin == Init /\ [][NextAdmin]_vars

\* The coach calls every write operation on the reports and images of the
\* client, assigned or not, while the client submits reports and attaches
\* images to the first one.
NextCoach ==
    \/ Tick
    \/ Submit("c1", "c1", FullBody)
    \/ RequestUpload("c1", 1, "image/png", 1024, TRUE)
    \/ \E c \in ClientIds : Submit("t1", c, FullBody)
    \/ \E r \in ReportIdInputs : Patch("t1", r, WeightPatch)
    \/ \E r \in ReportIdInputs : DeleteReport("t1", r)
    \/ \E r \in ReportIdInputs : RequestUpload("t1", r, "image/jpeg", 1024, TRUE)
    \/ \E i \in ImageIdInputs : DeleteImage("t1", i, TRUE)
    \/ Activate("t1", "t1", "c1")
    \/ Deactivate("t1", "t1", "c1")

SpecCoach == Init /\ [][NextCoach]_vars

\* Delegated reads: the coaches read the reports, the trends and the
\* profile of the clients while assignments are activated and deactivated
\* and the clients submit and delete reports.
NextRead ==
    \/ \E c \in ClientIds : Submit(c, c, FullBody)
    \/ DeleteReport("c1", 1)
    \/ \E c \in ClientIds : Activate("t1", "t1", c)
    \/ \E c \in ClientIds : Deactivate("t1", "t1", c)
    \/ \E u \in TrainerIds, r \in ReportIdInputs : GetReport(u, r)
    \/ \E u \in TrainerIds, c \in ClientIds : ListReports(u, c)
    \/ \E u \in TrainerIds, c \in ClientIds : Trends(u, c)
    \/ \E u \in TrainerIds, c \in ClientIds : GetClient(u, c)

SpecRead == Init /\ [][NextRead]_vars

\* Isolation of clients: each client submits reports and attaches images
\* to the first report when it is their own, and calls every operation on
\* the reports and images of both clients; the coach's assignment is
\* deactivated and activated.
NextClient ==
    \/ \E c \in ClientIds : Submit(c, c, FullBody)
    \/ \E c \in ClientIds : RequestUpload(c, 1, "image/png", 1024, TRUE)
    \/ \E u, c \in ClientIds : u # c /\ Submit(u, c, FullBody)
    \/ \E u \in ClientIds, r \in ReportIdInputs : GetReport(u, r)
    \/ \E u, c \in ClientIds : ListReports(u, c)
    \/ \E u, c \in ClientIds : Trends(u, c)
    \/ \E u \in ClientIds, r \in ReportIdInputs :
          /\ r \in ReportIds
          /\ reports[r].client_id # u
          /\ \/ Patch(u, r, WeightPatch)
             \/ DeleteReport(u, r)
             \/ RequestUpload(u, r, "image/jpeg", 1024, TRUE)
    \/ \E u \in ClientIds, i \in ImageIdInputs :
          /\ i \in ImageIds
          /\ reports[report_images[i].report_id].client_id # u
          /\ DeleteImage(u, i, TRUE)
    \/ Deactivate("t1", "t1", "c1")
    \/ Activate("t1", "t1", "c1")

SpecClient == Init /\ [][NextClient]_vars

\* Assignments: the coaches and the admin activate and deactivate the
\* pairs of AssignPairs at the instants of the schedule, and the coaches
\* read the profile of the clients.
AssignPairs == {<<"t1", "c1">>, <<"t2", "c1">>, <<"t1", "c2">>}

NextAssign ==
    \/ Tick
    \/ \E p \in AssignPairs : \E u \in {p[1], "a1"} : Activate(u, p[1], p[2])
    \/ \E p \in AssignPairs : \E u \in {p[1], "a1"} : Deactivate(u, p[1], p[2])
    \/ Deactivate("t2", "t2", "c2")
    \/ \E u \in TrainerIds : GetClient(u, "c1")

SpecAssign == Init /\ [][NextAssign]_vars

\* Where assignments come from: the coaches create a client and activate
\* and deactivate assignments, while a client reports, edits, attaches and
\* deletes an image and deletes the report, and the coach reads it.
NextCreate ==
    \/ \E u \in {"t1", "t2", "c1"},
          b \in {NewClientBody, NewClientWithEmail, TakenPhoneBody, NamelessBody} :
          CreateClient(u, b)
    \/ \E c \in {"c1", "c3"} : Activate("t2", "t2", c)
    \/ \E c \in {"c1", "c3"} : Deactivate("t1", "t1", c)
    \/ Submit("c1", "c1", FullBody)
    \/ Patch("c1", 1, WeightPatch)
    \/ RequestUpload("c1", 1, "image/png", 1024, TRUE)
    \/ DeleteImage("c1", 1, TRUE)
    \/ DeleteReport("c1", 1)
    \/ GetReport("t1", 1)

SpecCreate == Init /\ [][NextCreate]_vars

\* Images of a report: a client reports and deletes the first report, every
\* kind of caller requests well-formed uploads on every report id, with the
\* object store issuing the URL or not, and the client deletes images.
NextImages ==
    \/ Submit("c1", "c1", FullBody)
    \/ DeleteReport("c1", 1)
    \/ \E u \in {"c1", "c2", "t1", "a1", Anon}, r \in ReportIdInputs, urlOk \in BOOLEAN :
          RequestUpload(u, r, "image/png", 1024, urlOk)
    \/ \E i \in ImageIdInputs : DeleteImage("c1", i, TRUE)

SpecImages == Init /\ [][NextImages]_vars

\* Concurrent uploads: the client reports, requests uploads on the first
\* report that interleave at their awaits, and deletes the first image.
NextUploadRace ==
    \/ Submit("c1", "c1", FullBody)
    \/ \E slot \in 1..MaxInflight :
          /\ \A s \in 1..(slot - 1) : inflight[s] # NoCall
          /\ UploadBegin("c1", 1, "image/png", 1024, slot)
    \/ \E slot \in 1..MaxInflight, urlOk \in BOOLEAN : UploadFinish(slot, urlOk)
    \/ DeleteImage("c1", 1, TRUE)

SpecUploadRace == Init /\ [][NextUploadRace]_vars

\* Reports and their images: a client reports, attaches images,
\* every kind of caller deletes images, with the object store removing the
\* file or failing, deletes reports and gets them.
NextDelete ==
    \/ Submit("c1", "c1", FullBody)
    \/ RequestUpload("c1", 1, "image/png", 1024, TRUE)
    \/ \E u \in {"c1", "c2", "t1", "a1", Anon}, i \in ImageIdInputs, storageOk \in BOOLEAN :
          DeleteImage(u, i, storageOk)
    \/ \E u \in {"c1", "c2", "t1", "a1", Anon}, r \in ReportIdInputs : DeleteReport(u, r)
    \/ \E u \in {"c1", "t1"}, r \in ReportIdInputs : GetReport(u, r)

SpecDelete == Init /\ [][NextDelete]_vars

\* Trends: a client reports with and without a weight over the days and
\* deletes the first report; the client, the coach and a stranger ask for
\* the trends.
NextTrends ==
    \/ NextDay
    \/ \E b \in {FullBody, CardioBody, LightBody} : Submit("c1", "c1", b)
    \/ DeleteReport("c1", 1)
    \/ \E u \in {"c1", "t1", "c2"}, m \in MetricsInputs : TrendsOf(u, "c1", m)

SpecTrends == Init /\ [][NextTrends]_vars

\* A report read with its images: over time a client reports once, attaches
\* images to the report and deletes the first ones, and the coach and
\* another client get the report.
NextGet ==
    \/ Tick
    \/ reports = <<>> /\ Submit("c1", "c1", FullBody)
    \/ RequestUpload("c1", 1, "image/png", 1024, TRUE)
    \/ \E i \in {1, 2} : DeleteImage("c1", i, TRUE)
    \/ \E u \in {"t1", "c2"} : GetReport(u, 1)

SpecGet == Init /\ [][NextGet]_vars

\* Listing: a client reports over the days and deletes the first report;
\* the coach and another client list the reports page by page.
NextList ==
    \/ NextDay
    \/ \E b \in {FullBody, CardioBody} : Submit("c1", "c1", b)
    \/ DeleteReport("c1", 1)
    \/ \E u \in {"t1", "c2"}, p \in PageInputs, s \in PageSizeInputs,
          rangeOk \in BOOLEAN : ListOf(u, "c1", p, s, rangeOk)

SpecList == Init /\ [][NextList]_vars

\* Partial updates: a client reports and attaches an image, and the client,
\* an admin and the coach edit the reports with patches of one field, of
\* several fields, of a null note, of no known field and of a bad value.
NextPatch ==
    \/ \E b \in {FullBody, CardioBody} : Submit("c1", "c1", b)
    \/ RequestUpload("c1", 1, "image/png", 1024, TRUE)
    \/ \E u \in {"c1", "a1", "t1"}, r \in ReportIdInputs,
          b \in {WeightPatch, NotePatch, NullNotePatch, EmptyPatch, InvalidBody} :
          Patch(u, r, b)

SpecPatch == Init /\ [][NextPatch]_vars

\* Requests without a session: a client reports and attaches an image, and
\* a caller who is not signed in calls every handler, with existing and
\* missing targets and with good and bad input.
NextAnon ==
    \/ Submit("c1", "c1", FullBody)
    \/ RequestUpload("c1", 1, "image/png", 1024, TRUE)
    \/ \E c \in {"c1", "c3"}, b \in {FullBody, InvalidBody} : Submit(Anon, c, b)
    \/ \E r \in ReportIdInputs : GetReport(Anon, r)
    \/ \E r \in ReportIdInputs, b \in {WeightPatch, InvalidBody} : Patch(Anon, r, b)
    \/ \E r \in ReportIdInputs : DeleteReport(Anon, r)
    \/ \E c \in {"c1", "c3"}, s \in {Null, Some(0)} : ListOf(Anon, c, Null, s, TRUE)
    \/ \E c \in {"c1", "c3"}, m \in {Null, Some(<<<<"height">>>>)} : TrendsOf(Anon, c, m)
    \/ \E c \in {"c1", "c3"} : GetClient(Anon, c)
    \/ \E r \in ReportIdInputs, ct \in {"image/png", "image/gif"} :
          RequestUpload(Anon, r, ct, 1024, TRUE)
    \/ \E i \in ImageIdInputs : DeleteImage(Anon, i, TRUE)
    \/ \E c \in {"c1", "c3"} : Activate(Anon, "t1", c)
    \/ \E c \in {"c1", "c3"} : Deactivate(Anon, "t1", c)
    \/ \E b \in {NewClientBody, NamelessBody} : CreateClient(Anon, b)

SpecAnon == Init /\ [][NextAnon]_vars

\* Repeated calls: a client reports, attaches images, edits, deletes images
\* and reports, and the coach and the admin activate and deactivate the
\* assignment; any call may be made again right after it was answered.
NextRetry ==
    \/ Submit("c1", "c1", FullBody)
    \/ RequestUpload("c1", 1, "image/png", 1024, TRUE)
    \/ \E i \in ImageIdInputs : DeleteImage("c1", i, TRUE)
    \/ \E b \in {WeightPatch, NotePatch} : Patch("c1", 1, b)
    \/ \E r \in ReportIdInputs : DeleteReport("c1", r)
    \/ \E u \in {"t1", "a1"} : Activate(u, "t1", "c1")
    \/ \E u \in {"t1", "a1"} : Deactivate(u, "t1", "c1")

SpecRetry == Init /\ [][NextRetry]_vars

\* Retention: over the instants of the first day a client reports once,
\* attaches images and deletes the first one; half a year later the
\* client attaches further images and the scheduler runs the sweep, at
\* any instant.
NextSweep ==
    \/ Tick
    \/ HalfYearLater
    \/ reports = <<>> /\ Submit("c1", "c1", FullBody)
    \/ RequestUpload("c1", 1, "image/png", 1024, TRUE)
    \/ DeleteImage("c1", 1, TRUE)
    \/ Sweep

SpecSweep == Init /\ [][NextSweep]_vars

\* Profiles: the admin and a coach create coaches, the coaches and a client
\* create clients, with inserts and invitations that fail or not; the
\* admin and a coach update a client and a new coach, role included, and
\* delete them.
NextProfiles ==
    \/ \E u \in {"a1", "t1"}, b \in {NewTrainerBody, BadEmailBody},
          failAt \in {"none", "trainers"}, inviteOk \in BOOLEAN :
          CreateTrainerOf(u, b, failAt, inviteOk)
    \/ \E u \in {"t1", "c1"}, b \in {NewClientBody, NewClientWithEmail, TakenPhoneBody},
          failAt \in {"none", "clients", "trainer_client"}, inviteOk \in BOOLEAN :
          CreateClientOf(u, b, failAt, inviteOk)
    \/ \E id \in {"c1", "t3"}, b \in RolePatches \cup NamePatches \cup {EmptyPatch} :
          PatchUser("a1", id, b)
    \/ PatchUser("t1", "c1", [role |-> "trainer"])
    \/ \E id \in {"c1", "t3"} : DeleteUser("a1", id)
    \/ DeleteUser("t1", "c1")

SpecProfiles == Init /\ [][NextProfiles]_vars

\* Deleted reports: a client reports and attaches images to the first
\* report; the client and the admin delete reports; the client, the admin
\* and the coach then get, edit and delete every report and attach to the
\* first one, list the reports and ask for the trends of the client.
NextInvisible ==
    \/ Submit("c1", "c1", FullBody)
    \/ \E u \in {"c1", "a1", "t1"}, r \in ReportIdInputs : DeleteReport(u, r)
    \/ \E u \in {"c1", "a1", "t1"}, r \in ReportIdInputs : GetReport(u, r)
    \/ \E u \in {"c1", "a1", "t1"}, r \in ReportIdInputs : Patch(u, r, SamePatch)
    \/ \E u \in {"c1", "a1"} : RequestUpload(u, 1, "image/png", 1024, TRUE)
    \/ \E u \in {"c1", "a1", "t1"} : ListReports(u, "c1")
    \/ \E u \in {"c1", "a1", "t1"} : Trends(u, "c1")

SpecInvisible == Init /\ [][NextInvisible]_vars

\* Stored values: over the days a client reports with values, with zeros
\* and an empty note, and without most fields, deletes the first report,
\* and the client and the coach read the reports and the trends.
NextStored ==
    \/ NextDay
    \/ \E b \in {FullBody, ZeroBody, CardioBody, InvalidBody} : Submit("c1", "c1", b)
    \/ DeleteReport("c1", 1)
    \/ \E r \in ReportIdInputs : GetReport("t1", r)
    \/ \E u \in {"c1", "t1"} : Trends(u, "c1")

SpecStored == Init /\ [][NextStored]_vars

\* Registration of images: a client reports and deletes the first report,
\* the client, a coach of another client and a caller without a session
\* request uploads of allowed and other content types for the first report
\* and for one that may not exist, with the object store issuing the URL or
\* not and the insert of the record failing or not, and the client deletes
\* the first image.
NextUpload ==
    \/ Submit("c1", "c1", FullBody)
    \/ DeleteReport("c1", 1)
    \/ \E u \in {"c1", "t2", Anon}, r \in {1, 2},
          ct \in {"image/png", "image/gif"}, urlOk \in BOOLEAN, insertOk \in BOOLEAN :
          RequestUploadOf(u, r, ct, 1024, urlOk, insertOk)
    \/ DeleteImage("c1", 1, TRUE)

SpecUpload == Init /\ [][NextUpload]_vars

\* Revoked identities: the client c1 reports and registers an image, the
\* admin soft-deletes the client c1 or the coach t1, the coach soft-deletes
\* the client, and c1 and t1 go on calling every operation on the client,
\* the report and the image.
RevokedCallers == {"c1", "t1"}

NextRevoked ==
    \/ \E u \in RevokedCallers : Submit(u, "c1", FullBody)
    \/ \E id \in RevokedCallers : DeleteUser("a1", id)
    \/ \E u \in RevokedCallers : DeleteUser(u, "c2")
    \/ \E u \in RevokedCallers : DeleteClient(u, "c1")
    \/ \E u \in RevokedCallers : GetReport(u, 1)
    \/ \E u \in RevokedCallers : Patch(u, 1, WeightPatch)
    \/ \E u \in RevokedCallers : DeleteReport(u, 1)
    \/ \E u \in RevokedCallers : ListReports(u, "c1")
    \/ \E u \in RevokedCallers : Trends(u, "c1")
    \/ \E u \in RevokedCallers : GetClient(u, "c1")
    \/ \E u \in RevokedCallers : RequestUpload(u, 1, "image/png", 1024, TRUE)
    \/ \E u \in RevokedCallers : DeleteImage(u, 1, TRUE)
    \/ \E u \in RevokedCallers : Deactivate(u, "t1", "c1")
    \/ \E u \in RevokedCallers : CreateClient(u, NewClientBody)
    \/ \E u \in RevokedCallers : PatchUser(u, "c1", [role |-> "trainer"])

SpecRevoked == Init /\ [][NextRevoked]_vars

-----------------------------------------------------------------------------
(* Weekly quota *)

\* The key the storage gives a report inserted at instant t.
StoredWeek(t) ==
    [year |-> ExtractYear(DayNumber(t)), weekNumber |-> ExtractWeek(DayNumber(t))]

\* The non-deleted reports of the client in the week of instant t.
ReportsOfWeek(clientId, t) ==
    ExistingReports(clientId, StoredWeek(t).year, StoredWeek(t).weekNumber)

\* A step in which the client's own, well-formed submit was answered.
OwnSubmitAnswered(c) ==
    /\ resp'.op = "submit"
    /\ resp'.user = c
    /\ resp'.client = c
    /\ resp'.status # 400

\* C1: once a client has two non-deleted reports in a week, every further
\* submit of that client in that week fails with Conflict (409) and no
\* report row is added or changed.
C1_ThirdSubmitIsConflict ==
    [][\A c \in ClientIds :
          (OwnSubmitAnswered(c) /\ Cardinality(ReportsOfWeek(c, Now)) >= 2)
              => (resp'.status = 409 /\ reports' = reports)]_vars

\* C2: no two report rows share (client_id, year, week_number, sequence),
\* and no client has more than two non-deleted reports for one
\* (year, week_number), also when submit calls interleave.
C2_UniqueKeyAndQuota ==
    /\ \A i, j \in ReportIds :
          (i # j /\ reports[i].client_id = reports[j].client_id
                 /\ reports[i].year = reports[j].year
                 /\ reports[i].week_number = reports[j].week_number)
              => reports[i].sequence # reports[j].sequence
    /\ \A i \in ReportIds :
          Cardinality(ExistingReports(reports[i].client_id, reports[i].year,
                                      reports[i].week_number)) <= 2

\* A call is in flight whose key was taken, after its quota query, by the
\* insert of a concurrent call.
C2_Witness ==
    \E s \in 1..MaxInflight :
        /\ inflight[s] # NoCall
        /\ \E i \in ReportIds :
              /\ i > inflight[s].seen
              /\ reports[i].client_id = inflight[s].client
              /\ reports[i].sequence = inflight[s].sequence
              /\ reports[i].year = StoredWeek(Now).year
              /\ reports[i].week_number = StoredWeek(Now).weekNumber

\* C3: a successful submit returns a report whose sequence is the number of
\* non-deleted reports the client already had for the report's
\* (year, week_number), with an empty image list.
C3_SequenceIsPriorCount ==
    [][(resp'.op = "submit" /\ resp'.status = 201)
          => /\ reports'[resp'.report].sequence =
                    Cardinality(ExistingReports(reports'[resp'.report].client_id,
                                                reports'[resp'.report].year,
                                                reports'[resp'.report].week_number))
             /\ resp'.images = <<>>]_vars

\* C4: a submit call that loses the race for a key (the key was inserted by
\* a concurrent call after this call's quota query) is answered with
\* Conflict (409), and the stored rows are left as they are.
C4_RaceLoserIsConflict ==
    [][\A s \in 1..MaxInflight :
          (/\ inflight[s] # NoCall
           /\ inflight'[s] = NoCall
           /\ \E i \in ReportIds :
                 /\ i > inflight[s].seen
                 /\ reports[i].client_id = inflight[s].client
                 /\ reports[i].sequence = inflight[s].sequence
                 /\ reports[i].year = StoredWeek(Now).year
                 /\ reports[i].week_number = StoredWeek(Now).weekNumber)
              => (resp'.status = 409 /\ reports' = reports)]_vars

-----------------------------------------------------------------------------
(* Edit window *)

IsAdmin(u) == u \in UserIds /\ users[u].role = "super_admin"

\* A step in which an edit of an existing report was answered.
EditAnswered ==
    /\ resp'.op = "edit"
    /\ resp'.report \in ReportIds

\* A step in which the owner's edit of their own non-deleted first report of
\* a week was answered.
OwnerEditOfFirst ==
    /\ EditAnswered
    /\ LiveReport(resp'.report)
    /\ reports[resp'.report].sequence = 0
    /\ resp'.user = reports[resp'.report].client_id

\* The non-deleted report is not the only non-deleted report of its client
\* and week.
HasSecondReport(reportId) ==
    \E j \in ReportIds :
        /\ j # reportId
        /\ IsNull(reports[j].deleted_at)
        /\ reports[j].client_id = reports[reportId].client_id
        /\ reports[j].year = reports[reportId].year
        /\ reports[j].week_number = reports[reportId].week_number

\* C5: the owner's edit of their non-deleted sequence-0 report with a valid
\* non-empty patch succeeds when less than one hour has passed since
\* created_at, and fails with Forbidden, leaving the reports unchanged, from
\* exactly one hour on.
C5_OwnerEditWithinOneHour ==
    [][OwnerEditOfFirst
          => IF Now - reports[resp'.report].created_at < OneHourMs
             THEN /\ resp'.status = 200
                  /\ reports'[resp'.report].content.weight = WeightPatch.weight
             ELSE /\ resp'.status = 403
                  /\ reports' = reports]_vars

\* The owner's edit was refused exactly one hour after created_at.
C5_Witness ==
    /\ resp.op = "edit"
    /\ resp.status = 403
    /\ resp.report \in ReportIds
    /\ LiveReport(resp.report)
    /\ reports[resp.report].sequence = 0
    /\ resp.user = reports[resp.report].client_id
    /\ Now - reports[resp.report].created_at = OneHourMs

\* C6: an edit of a sequence-1 report by any principal that is not an admin
\* (the owner, another client, a coach) fails with Forbidden at any time
\* and leaves the reports unchanged.
C6_SecondReportNeverEditable ==
    [][(/\ EditAnswered
        /\ reports[resp'.report].sequence = 1
        /\ ~IsAdmin(resp'.user))
          => (resp'.status = 403 /\ reports' = reports)]_vars

\* The owner's edit of their sequence-1 report was refused at the very
\* instant the report was created.
C6_Witness ==
    /\ resp.op = "edit"
    /\ resp.status = 403
    /\ resp.report \in ReportIds
    /\ LiveReport(resp.report)
    /\ reports[resp.report].sequence = 1
    /\ resp.user = reports[resp.report].client_id
    /\ Now = reports[resp.report].created_at

\* C7 as stated: once a second report of the week exists, the owner's edit
\* of the first report fails with Forbidden, also within the hour.
C7_SecondReportFreezesFirst ==
    [][(OwnerEditOfFirst /\ HasSecondReport(resp'.report))
          => (resp'.status = 403 /\ reports' = reports)]_vars

\* C7 amended: a second report of the week does not freeze the first: the
\* owner's edit of the first report succeeds while less than one hour has
\* passed since created_at and is Forbidden only from one hour on.
C7_SecondReportLeavesWindowOpen ==
    [][(OwnerEditOfFirst /\ HasSecondReport(resp'.report))
          => /\ (Now - reports[resp'.report].created_at < OneHourMs)
                    => resp'.status = 200
             /\ (Now - reports[resp'.report].created_at >= OneHourMs)
                    => (resp'.status = 403 /\ reports' = reports)]_vars

\* The owner's edit of the first report succeeded while the second report of
\* the week existed.
C7_Witness ==
    /\ resp.op = "edit"
    /\ resp.status = 200
    /\ resp.report \in ReportIds
    /\ reports[resp.report].sequence = 0
    /\ resp.user = reports[resp.report].client_id
    /\ HasSecondReport(resp.report)

\* C8: an admin's edit of any non-deleted report with a valid non-empty
\* patch succeeds, whatever the sequence and the time since created_at.
C8_AdminEditAlwaysAllowed ==
    [][(/\ EditAnswered
        /\ LiveReport(resp'.report)
        /\ IsAdmin(resp'.user))
          => /\ resp'.status = 200
             /\ reports'[resp'.report].content.weight = WeightPatch.weight]_vars

\* An admin's edit of a sequence-1 report succeeded one hour after the
\* report was created.
C8_Witness ==
    /\ resp.op = "edit"
    /\ resp.status = 200
    /\ IsAdmin(resp.user)
    /\ resp.report \in ReportIds
    /\ reports[resp.report].sequence = 1
    /\ Now - reports[resp.report].created_at >= OneHourMs

-----------------------------------------------------------------------------
(* Access decisions *)

IsCoach(u) == u \in UserIds /\ users[u].role = "trainer"

\* The step answered an operation on a report that exists and is not deleted.
OnLiveReport ==
    /\ resp'.op \in {"get", "edit", "softDelete", "requestUpload"}
    /\ LiveReport(resp'.report)

\* The step answered an operation on the reports of an existing client.
OnExistingClient ==
    /\ resp'.op \in {"list", "trends"}
    /\ ClientExists(resp'.client)

\* The step answered the soft delete of an image that is not deleted.
OnLiveImage ==
    /\ resp'.op = "imageSoftDelete"
    /\ resp'.image \in ImageIds
    /\ ~report_images[resp'.image].is_deleted

C10_CoachNeverWrites ==
    [][(/\ IsCoach(resp'.user)
        /\ resp'.op \in {"submit", "edit", "softDelete", "requestUpload",
                          "imageSoftDelete"})
          => /\ resp'.status = 403
             /\ reports' = reports
             /\ report_images' = report_images]_vars

\* The edit of a coach was refused on a non-deleted report of a client the
\* coach is actively assigned to, within the hour of its creation.
C10_Witness ==
    /\ resp.op = "edit"
    /\ IsCoach(resp.user)
    /\ resp.status = 403
    /\ resp.report \in ReportIds
    /\ LiveReport(resp.report)
    /\ reports[resp.report].sequence = 0
    /\ Now - reports[resp.report].created_at < OneHourMs
    /\ ActiveAssignment(resp.user, reports[resp.report].client_id)

-----------------------------------------------------------------------------
(* Delegated reads *)

\* The step answered a coach's read; ReadOwner is the client whose data was
\* asked for, an existing client or the owner of a non-deleted report.
CoachReadAnswered ==
    /\ IsCoach(resp'.user)
    /\ \/ resp'.op \in {"list", "trends", "profile"} /\ ClientExists(resp'.client)
       \/ resp'.op = "get" /\ LiveReport(resp'.report)

ReadOwner ==
    IF resp'.op = "get" THEN reports[resp'.report].client_id ELSE resp'.client

\* C11: a coach's read of a client's data (get report, list reports,
\* trends, client profile) is allowed exactly when an assignment row
\* (coach, client) with is_active = true exists at the time of the check,
\* and is Forbidden otherwise.
C11_CoachReadsIffActive ==
    [][CoachReadAnswered
          => IF ActiveAssignment(resp'.user, ReadOwner)
             THEN resp'.status = 200
             ELSE resp'.status = 403]_vars

\* A coach's read of a client's report was refused while the assignment
\* row of the pair exists and is inactive.
C11_Witness ==
    /\ resp.op = "get"
    /\ IsCoach(resp.user)
    /\ resp.status = 403
    /\ LiveReport(resp.report)
    /\ trainer_client[<<resp.user, reports[resp.report].client_id>>] # NoRow
    /\ ~trainer_client[<<resp.user, reports[resp.report].client_id>>].is_active

-----------------------------------------------------------------------------
(* Isolation of clients *)

IsClient(u) == u \in UserIds /\ users[u].role = "client"

\* The step answered an operation of a client on the data of another
\* client: the other client's reports as a whole, one of their reports, or
\* an image of one of their reports.
OtherClientTargeted ==
    /\ IsClient(resp'.user)
    /\ \/ /\ resp'.op \in {"list", "trends", "submit"}
          /\ resp'.client \in ClientIds \ {resp'.user}
       \/ /\ resp'.op \in {"get", "edit", "softDelete", "requestUpload"}
          /\ resp'.report \in ReportIds
          /\ reports[resp'.report].client_id # resp'.user
       \/ /\ resp'.op = "imageSoftDelete"
          /\ resp'.image \in ImageIds
          /\ reports[report_images[resp'.image].report_id].client_id # resp'.user

\* C12: every operation of a client on another client's reports or images
\* (get, list, trends, submit, edit, softDelete, requestUpload, image
\* softDelete) is denied and leaves the report and image rows unchanged.
C12_ClientsIsolated ==
    [][OtherClientTargeted
          => /\ resp'.status = 403
             /\ reports' = reports
             /\ report_images' = report_images]_vars

\* A client's soft delete of a non-deleted image of another client's
\* non-deleted report was refused.
C12_Witness ==
    /\ resp.op = "imageSoftDelete"
    /\ IsClient(resp.user)
    /\ resp.status = 403
    /\ resp.image \in ImageIds
    /\ ~report_images[resp.image].is_deleted
    /\ LiveReport(report_images[resp.image].report_id)
    /\ reports[report_images[resp.image].report_id].client_id # resp.user

-----------------------------------------------------------------------------
(* Assignments *)

\* The pair the step's activate or deactivate call named.
CalledPair == <<resp'.trainer, resp'.client>>

\* The step answered an activate (deactivate) call that passed the
\* authorisation and found the coach and the client.
ActivateServed ==
    resp'.op = "activate" /\ resp'.status \notin {401, 403, 404}

DeactivateServed ==
    /\ resp'.op = "deactivate"
    /\ resp'.status # 401
    /\ resp'.status # 403
    /\ TrainerExists(resp'.trainer)
    /\ ClientExists(resp'.client)

\* C13: after a successful deactivate the pair is not active, whatever
\* activate calls preceded it; an activate on a pair that is not active
\* makes it active with started_at the time of that call.
C13_DeactivateThenReactivate ==
    [][/\ (resp'.op = "deactivate" /\ resp'.status = 200)
            => (/\ trainer_client'[CalledPair] # NoRow
                /\ ~trainer_client'[CalledPair].is_active)
       /\ (ActivateServed /\ ~ActiveAssignment(resp'.trainer, resp'.client))
            => (/\ resp'.status = 200
                /\ trainer_client'[CalledPair].is_active
                /\ trainer_client'[CalledPair].started_at = Now)]_vars

\* The pair (t1, c1), which an activate call restarted (its started_at is
\* not the initial one), has just been deactivated and is not active.
C13_Witness ==
    /\ resp.op = "deactivate"
    /\ resp.status = 200
    /\ resp.trainer = "t1"
    /\ resp.client = "c1"
    /\ trainer_client[<<"t1", "c1">>].started_at >= Instant(1)
    /\ ~trainer_client[<<"t1", "c1">>].is_active

\* C14: a client can be actively assigned to several coaches at once, and
\* an activate or deactivate call on one pair changes no field of the row
\* of any other pair; a coach with an active assignment keeps reading the
\* client's profile.
C14_OtherPairsUntouched ==
    [][/\ resp'.op \in {"activate", "deactivate"}
            => \A p \in DOMAIN trainer_client :
                   p # CalledPair => trainer_client'[p] = trainer_client[p]
       /\ (/\ resp'.op = "profile"
           /\ IsCoach(resp'.user)
           /\ ClientExists(resp'.client)
           /\ ActiveAssignment(resp'.user, resp'.client))
            => resp'.status = 200]_vars

\* Coach t1 has just deactivated client c1 while coach t2, who activated
\* c1 at an earlier instant, is still active with that started_at.
C14_Witness ==
    /\ resp.op = "deactivate"
    /\ resp.status = 200
    /\ resp.trainer = "t1"
    /\ resp.client = "c1"
    /\ ~ActiveAssignment("t1", "c1")
    /\ ActiveAssignment("t2", "c1")
    /\ trainer_client[<<"t2", "c1">>].started_at < Now

C16_DeactivateNeedsRow ==
    [][DeactivateServed
          => IF trainer_client[CalledPair] = NoRow
             THEN /\ resp'.status = 404
                  /\ trainer_client' = trainer_client
             ELSE /\ resp'.status = 200
                  /\ trainer_client' =
                        [trainer_client EXCEPT ![CalledPair].is_active = FALSE]]_vars

\* A deactivate call on a pair without a row was answered NotFound.
C16_Witness ==
    /\ resp.op = "deactivate"
    /\ resp.status = 404
    /\ TrainerExists(resp.trainer)
    /\ ClientExists(resp.client)
    /\ trainer_client[<<resp.trainer, resp.client>>] = NoRow

-----------------------------------------------------------------------------
(* Where assignments come from *)

\* The step created the row of pair p or made it active.
CreatedOrActivated(p) ==
    /\ trainer_client'[p] # NoRow
    /\ \/ trainer_client[p] = NoRow
       \/ ~trainer_client[p].is_active /\ trainer_client'[p].is_active

\* The step served a successful activate call on pair p.
ActivateOf(p) ==
    /\ resp'.op = "activate"
    /\ resp'.status = 200
    /\ CalledPair = p

\* C17 as stated: an assignment row is created or becomes active only by
\* an activate call on that pair; no other operation, creating a client
\* profile included, inserts a row or sets is_active to true.
C17_OnlyActivateAssigns ==
    [][\A p \in DOMAIN trainer_client :
          CreatedOrActivated(p) => ActivateOf(p)]_vars

\* C17 amended: an assignment row is created or becomes active only by an
\* activate call on that pair, or by a coach's creation of a client
\* profile, which inserts an active row for the creating coach and the new
\* client; no other operation inserts a row or sets is_active to true.
C17_ActivateOrCreateClientAssigns ==
    [][\A p \in DOMAIN trainer_client :
          CreatedOrActivated(p)
              => \/ ActivateOf(p)
                 \/ /\ resp'.op = "createClient"
                    /\ resp'.status = 201
                    /\ p = <<resp'.user, resp'.client>>
                    /\ IsCoach(resp'.user)
                    /\ users[resp'.client] = NoRow
                    /\ trainer_client'[p] = ActivatedRow(Now)]_vars

\* A coach has just created a client and holds an active assignment to
\* that client, for which no activate call was made.
C17_Witness ==
    /\ resp.op = "createClient"
    /\ resp.status = 201
    /\ resp.client \in NewClientIds
    /\ ClientExists(resp.client)
    /\ ActiveAssignment(resp.user, resp.client)

-----------------------------------------------------------------------------
(* Images of a report *)

\* The number of image records of the report with is_deleted = false.
NonDeletedImages(reportId) ==
    Cardinality({i \in 1..Len(report_images) :
                    /\ report_images[i].report_id = reportId
                    /\ ~report_images[i].is_deleted})

\* The soft-deleted image records of the report.
DeletedImages(reportId) ==
    {i \in 1..Len(report_images) :
        report_images[i].report_id = reportId /\ report_images[i].is_deleted}

\* The step registered one image record, not deleted, for the report of the
\* call.
ImageRegistered ==
    /\ Len(report_images') = Len(report_images) + 1
    /\ SubSeq(report_images', 1, Len(report_images)) = report_images
    /\ resp'.image = Len(report_images')
    /\ report_images'[resp'.image].report_id = resp'.report
    /\ ~report_images'[resp'.image].is_deleted

\* C18: a well-formed requestUpload that passed the authorisation, on a
\* report with 3 non-deleted images, fails with Validation (400) and
\* registers no record, however many images of the report were soft-deleted
\* before; on a report with fewer than 3 non-deleted images, so also after
\* one of the 3 was soft-deleted, it is not refused: it registers a record
\* (or fails with 500 and no record when the object store issues no URL).
C18_ThreeLiveImagesAtMost ==
    [][(resp'.op = "requestUpload" /\ resp'.status \notin {401, 403})
          => IF NonDeletedImages(resp'.report) >= 3
             THEN resp'.status = 400 /\ report_images' = report_images
             ELSE \/ resp'.status = 200 /\ ImageRegistered
                  \/ resp'.status = 500 /\ report_images' = report_images]_vars

\* The owner's upload was just refused on a report that holds 3 non-deleted
\* images and a soft-deleted one: the fourth record was accepted because
\* one was soft-deleted, and the further upload is refused.
C18_Witness ==
    /\ resp.op = "requestUpload"
    /\ resp.status = 400
    /\ resp.user = "c1"
    /\ NonDeletedImages(resp.report) = 3
    /\ DeletedImages(resp.report) # {}

\* C19: in every reachable state, the states reached by interleaved
\* concurrent requestUpload calls on one report included, every report has
\* at most 3 non-deleted image records.
C19_NeverMoreThanThreeLiveImages ==
    \A r \in 1..Len(reports) : NonDeletedImages(r) <= 3

\* The caller is the client owning the report or an admin, and the report
\* exists and is not soft-deleted.
UploadAuthorized(u, reportId) ==
    /\ reportId \in 1..Len(reports)
    /\ IsNull(reports[reportId].deleted_at)
    /\ \/ IsClient(u) /\ reports[reportId].client_id = u
       \/ IsAdmin(u)

\* C20: an image record is created only by a requestUpload whose principal
\* is the client owning the report or an admin and whose report exists and
\* is not soft-deleted; a requestUpload by any other principal, or on a
\* deleted or missing report, fails (401 or 403) and creates no record.
C20_UploadOnlyByOwnerOrAdmin ==
    [][/\ Len(report_images') > Len(report_images)
            => /\ resp'.op = "requestUpload"
               /\ resp'.status = 200
               /\ UploadAuthorized(resp'.user, resp'.report)
               /\ ImageRegistered
       /\ (resp'.op = "requestUpload" /\ ~UploadAuthorized(resp'.user, resp'.report))
            => /\ resp'.status \in {401, 403}
               /\ report_images' = report_images]_vars

\* An admin's upload on a client's non-deleted report was accepted and its
\* record exists, while the client's first report is soft-deleted.
C20_Witness ==
    /\ resp.op = "requestUpload"
    /\ resp.status = 200
    /\ IsAdmin(resp.user)
    /\ resp.image \in 1..Len(report_images)
    /\ report_images[resp.image].report_id = resp.report
    /\ IsNull(reports[resp.report].deleted_at)
    /\ Len(reports) >= 2
    /\ ~IsNull(reports[1].deleted_at)

-----------------------------------------------------------------------------
(* Deleting images and reports *)

\* The caller may delete the image: the image exists and is not deleted,
\* and the caller is an admin or the client owning its report.
MayDeleteImage(u, imageId) ==
    /\ imageId \in 1..Len(report_images)
    /\ ~report_images[imageId].is_deleted
    /\ \/ IsAdmin(u)
       \/ IsClient(u) /\ reports[report_images[imageId].report_id].client_id = u

\* C21: image softDelete by the owning client or an admin marks the image
\* is_deleted = true with deleted_at set to the time of the call and
\* answers success (204), also when the removal from the object store
\* fails; no other image record changes.
C21_StorageFailureKeepsDelete ==
    [][(resp'.op = "imageSoftDelete" /\ MayDeleteImage(resp'.user, resp'.image))
          => /\ resp'.status = 204
             /\ resp'.storage \in {"removed", "failed"}
             /\ report_images' = [report_images EXCEPT
                    ![resp'.image].is_deleted = TRUE,
                    ![resp'.image].deleted_at = Some(Now)]]_vars

\* The owner's delete of an image was answered 204 although the object
\* store failed to remove the file, and the record is marked deleted.
C21_Witness ==
    /\ resp.op = "imageSoftDelete"
    /\ resp.storage = "failed"
    /\ resp.status = 204
    /\ resp.user = "c1"
    /\ report_images[resp.image].is_deleted
    /\ report_images[resp.image].deleted_at = Some(Now)

\* C22: report softDelete succeeds only for the client owning the report or
\* an admin, on a report that is not yet deleted; it sets deleted_at of
\* that report to the time of the call and changes nothing else of any
\* report; a refused softDelete changes no report; no softDelete changes an
\* image record.
C22_ReportDeleteDoesNotCascade ==
    [][resp'.op = "softDelete"
          => /\ report_images' = report_images
             /\ IF resp'.status = 204
                THEN /\ resp'.report \in 1..Len(reports)
                     /\ IsNull(reports[resp'.report].deleted_at)
                     /\ \/ IsAdmin(resp'.user)
                        \/ /\ IsClient(resp'.user)
                           /\ reports[resp'.report].client_id = resp'.user
                     /\ reports' = [reports EXCEPT
                            ![resp'.report].deleted_at = Some(Now)]
                ELSE reports' = reports]_vars

\* The owner has just deleted a report that carries a non-deleted and a
\* soft-deleted image, while another report of theirs is not deleted.
C22_Witness ==
    /\ resp.op = "softDelete"
    /\ resp.status = 204
    /\ resp.user = "c1"
    /\ ~IsNull(reports[resp.report].deleted_at)
    /\ NonDeletedImages(resp.report) >= 1
    /\ DeletedImages(resp.report) # {}
    /\ \E r \in 1..Len(reports) : IsNull(reports[r].deleted_at)

-----------------------------------------------------------------------------
(* Trends *)

\* The metrics a trends call asks for: the names between the commas of the
\* parameter, all eight when it is absent or empty.
AskedMetrics(val) ==
    IF IsNull(val) \/ Val(val) = <<<<>>>> THEN Range(AllMetrics)
    ELSE {Trim(Val(val)[i]) : i \in 1..Len(Val(val))}

\* The non-null values of the metric over the non-deleted reports of the
\* client among the first n, in the order of created_at.
RECURSIVE NonNullValues(_, _, _)
NonNullValues(clientId, metric, n) ==
    IF n = 0 THEN <<>>
    ELSE NonNullValues(clientId, metric, n - 1)
         \o (IF /\ reports[n].client_id = clientId
                 /\ IsNull(reports[n].deleted_at)
                 /\ ~IsNull(reports[n].content[metric])
              THEN <<Val(reports[n].content[metric])>> ELSE <<>>)

\* C23: trends for a client returns, for each requested metric (all eight
\* when none is requested), the non-null values of the metric over the
\* non-deleted reports of the client in ascending created_at order; a
\* metric with no non-null value is absent from the result.
C23_TrendsSkipNulls ==
    [][(resp'.op = "trends" /\ resp'.status = 200)
          => resp'.trends =
                [m \in {k \in AskedMetrics(resp'.metrics) :
                           NonNullValues(resp'.client, k, Len(reports)) # <<>>} |->
                    NonNullValues(resp'.client, m, Len(reports))]]_vars

-----------------------------------------------------------------------------
(* A report and its images *)

\* The caller may read the report: the report exists and is not deleted,
\* and the caller is its owner, an admin or a coach actively assigned to
\* its owner.
MayReadReport(u, reportId) ==
    /\ reportId \in 1..Len(reports)
    /\ IsNull(reports[reportId].deleted_at)
    /\ \/ IsAdmin(u)
       \/ IsClient(u) /\ reports[reportId].client_id = u
       \/ /\ IsCoach(u)
          /\ trainer_client[<<u, reports[reportId].client_id>>] # NoRow
          /\ trainer_client[<<u, reports[reportId].client_id>>].is_active

\* C24: get of a non-deleted report by a principal with read access
\* succeeds and returns the report with exactly its image records that are
\* not soft-deleted, each once, in ascending order of created_at.
C24_GetReturnsLiveImagesInOrder ==
    [][(resp'.op = "get" /\ MayReadReport(resp'.user, resp'.report))
          => /\ resp'.status = 200
             /\ {resp'.images[j] : j \in 1..Len(resp'.images)}
                    = {i \in 1..Len(report_images) :
                          /\ report_images[i].report_id = resp'.report
                          /\ ~report_images[i].is_deleted}
             /\ Len(resp'.images) = NonDeletedImages(resp'.report)
             /\ \A j, k \in 1..Len(resp'.images) :
                    j < k => report_images[resp'.images[j]].created_at
                                <= report_images[resp'.images[k]].created_at]_vars

\* The coach got a report that carries a soft-deleted image and two
\* non-deleted images created at different times, and was given the two.
C24_Witness ==
    /\ resp.op = "get"
    /\ resp.status = 200
    /\ resp.user = "t1"
    /\ DeletedImages(resp.report) # {}
    /\ Len(resp.images) = 2
    /\ report_images[resp.images[1]].created_at < report_images[resp.images[2]].created_at

-----------------------------------------------------------------------------
(* Listing the reports of a client *)

\* The non-deleted reports of the client.
NonDeletedReports(clientId) ==
    {r \in 1..Len(reports) :
        reports[r].client_id = clientId /\ IsNull(reports[r].deleted_at)}

\* The position, from 0, of a report in the client's non-deleted reports
\* ordered by created_at descending; reports are stored in the order of
\* their creation.
PositionDescending(clientId, reportId) ==
    Cardinality({r \in NonDeletedReports(clientId) : r > reportId})

\* The list call passed the authorisation and found the client.
ListServed == resp'.op = "list" /\ resp'.status \notin {401, 403, 404}

AskedPage == IF IsNull(resp'.page) THEN 1 ELSE Val(resp'.page)
AskedPageSize == IF IsNull(resp'.pageSize) THEN 20 ELSE Val(resp'.pageSize)
TotalOf(clientId) == Cardinality(NonDeletedReports(clientId))

\* C25: list for a client rejects a pageSize outside 1..100 with Validation
\* (400); page p of size s, for p from 1 to ceil(total/s) (page 1 when
\* there is no report), succeeds with total equal to the number of
\* non-deleted reports of the client and holds exactly the client's
\* non-deleted reports at the positions (p-1)*s .. p*s-1 of the order by
\* created_at descending, each without the note field.
C25_ListPagesPartition ==
    [][ListServed
          => /\ AskedPageSize \notin 1..100 => resp'.status = 400
             /\ (/\ AskedPageSize \in 1..100
                 /\ AskedPage >= 1
                 /\ (AskedPage - 1) * AskedPageSize < TotalOf(resp'.client)
                        \/ AskedPage = 1)
                => /\ resp'.status = 200
                   /\ resp'.meta.totalItems = TotalOf(resp'.client)
                   /\ resp'.meta.totalPages * AskedPageSize >= TotalOf(resp'.client)
                   /\ (resp'.meta.totalPages - 1) * AskedPageSize < TotalOf(resp'.client)
                        \/ TotalOf(resp'.client) = 0
                   /\ {resp'.data[j].id : j \in 1..Len(resp'.data)}
                        = {r \in NonDeletedReports(resp'.client) :
                              /\ PositionDescending(resp'.client, r)
                                    >= (AskedPage - 1) * AskedPageSize
                              /\ PositionDescending(resp'.client, r)
                                    <= AskedPage * AskedPageSize - 1}
                   /\ \A j \in 1..Len(resp'.data) :
                        /\ PositionDescending(resp'.client, resp'.data[j].id)
                              = (AskedPage - 1) * AskedPageSize + j - 1
                        /\ "note" \notin DOMAIN resp'.data[j].content
                        /\ resp'.data[j].client_id = resp'.client
                        /\ IsNull(resp'.data[j].deleted_at)
                        /\ \A k \in 1..Len(resp'.data) :
                              j < k => resp'.data[j].created_at
                                          >= resp'.data[k].created_at]_vars

\* The coach was given page 2 of size 1 of a client who has two non-deleted
\* reports and a deleted one: the older of the two, of a total of 2.
C25_Witness ==
    /\ resp.op = "list"
    /\ resp.status = 200
    /\ resp.user = "t1"
    /\ resp.page = Some(2)
    /\ resp.pageSize = Some(1)
    /\ resp.meta.totalItems = 2
    /\ resp.meta.totalPages = 2
    /\ Len(resp.data) = 1
    /\ Len(reports) = 3
    /\ \E r \in NonDeletedReports("c1") :
          r > resp.data[1].id /\ reports[r].created_at > resp.data[1].created_at

-----------------------------------------------------------------------------
(* Partial updates *)

\* C26: a successful edit changes exactly the content fields present in the
\* patch, to the values of the patch, and leaves every other content field
\* and id, client_id, year, week_number, sequence, created_at and
\* deleted_at of the report unchanged; no other report and no image is
\* modified.
C26_EditIsPartialUpdate ==
    [][(resp'.op = "edit" /\ resp'.status = 200)
          => /\ resp'.report \in 1..Len(reports)
             /\ reports' = [reports EXCEPT ![resp'.report].content =
                    [f \in ContentFields |->
                        IF f \in DOMAIN resp'.patch THEN resp'.patch[f] ELSE @[f]]]
             /\ report_images' = report_images]_vars

\* The owner's edit of note and cardio_days succeeded on a report that
\* carries an image and keeps the weight it was submitted with; another
\* report exists.
C26_Witness ==
    /\ resp.op = "edit"
    /\ resp.status = 200
    /\ resp.user = "c1"
    /\ resp.patch = NotePatch
    /\ reports[resp.report].content.weight = FullBody.weight
    /\ reports[resp.report].content.note = NotePatch.note
    /\ NonDeletedImages(resp.report) >= 1
    /\ Len(reports) >= 2

\* C27: an edit whose patch carries an explicit null for note, issued by a
\* principal allowed to edit the report, succeeds and sets the note of the
\* report to null.
C27_NullNoteClearsNote ==
    [][(/\ resp'.op = "edit"
        /\ resp'.status \notin {401, 403, 404}
        /\ "note" \in DOMAIN resp'.patch
        /\ IsNull(resp'.patch.note))
          => /\ resp'.status = 200
             /\ IsNull(reports'[resp'.report].content.note)]_vars

-----------------------------------------------------------------------------
(* Week numbering *)

\* The ISO-8601 week-numbering pair of day number n (day 0 is a Monday):
\* the year of the Thursday of n's week and the number of that Thursday's
\* week in its year.
IsoWeekPair(n) ==
    LET thursday == n - (n % 7) + 3
    IN  [year |-> Civil(thursday).year,
         weekNumber |-> ((Civil(thursday).dayOfYear - 1) \div 7) + 1]

\* C28: the (year, week_number) that submit computes from the current time
\* is the ISO-8601 week-numbering pair of that time, so that 2025-03-10
\* gives week 11 of 2025.
C28_SubmitWeekIsIsoWeek ==
    getCurrentWeekInfo(Now) = IsoWeekPair(DayNumber(Now))

-----------------------------------------------------------------------------
(* Requests without a session *)

\* C29: every operation invoked without a resolved principal fails with
\* Unauthenticated (401), whatever it addresses and whatever its input,
\* and changes no stored state.
C29_UnauthenticatedFirst ==
    [][(resp'.op # "none" /\ resp'.user \notin AllUserIds)
          => /\ resp'.status = 401
             /\ UNCHANGED <<users, trainers, clients, trainer_client, reports, report_images>>]_vars

\* A caller without a session asked for the trends of a client who does
\* not exist, with a metric that does not exist, and was answered 401.
C29_Witness ==
    /\ resp.op = "trends"
    /\ resp.user = Anon
    /\ resp.status = 401
    /\ users[resp.client] = NoRow
    /\ resp.metrics = Some(<<<<"height">>>>)
    /\ Len(reports) >= 1

-----------------------------------------------------------------------------
(* Missing targets *)

\* The step answered a signed-in caller's get, edit or softDelete of a
\* report that does not exist or is soft-deleted, or their softDelete of an
\* image that does not exist or is soft-deleted.
MissingTargetAddressed ==
    /\ resp'.user \in AllUserIds
    /\ \/ /\ resp'.op \in {"get", "edit", "softDelete"}
          /\ \/ resp'.report \notin 1..Len(reports)
             \/ ~IsNull(reports[resp'.report].deleted_at)
       \/ /\ resp'.op = "imageSoftDelete"
          /\ \/ resp'.image \notin 1..Len(report_images)
             \/ report_images[resp'.image].is_deleted

\* C30: get, edit and softDelete of a report that does not exist or is
\* soft-deleted, and softDelete of an image that does not exist or is
\* already deleted, fail with NotFound (404), not Forbidden, for every
\* principal, admin included.
C30_MissingTargetIsNotFound ==
    [][MissingTargetAddressed => resp'.status = 404]_vars

-----------------------------------------------------------------------------
(* Retries *)

\* The operation and the arguments of the call a response answers.
CallOf(r) ==
    IF r.op = "requestUpload" THEN <<r.op, r.user, r.report>>
    ELSE IF r.op = "edit" THEN <<r.op, r.user, r.report, r.patch>>
    ELSE IF r.op = "softDelete" THEN <<r.op, r.user, r.report>>
    ELSE IF r.op = "imageSoftDelete" THEN <<r.op, r.user, r.image>>
    ELSE IF r.op \in {"activate", "deactivate"} THEN <<r.op, r.user, r.trainer, r.client>>
    ELSE <<r.op>>

RetryableOps ==
    {"requestUpload", "edit", "softDelete", "imageSoftDelete", "activate", "deactivate"}

\* A step that repeats the call just answered, which had taken effect.
RetriedAfterEffect ==
    /\ resp.op \in RetryableOps
    /\ resp.status \in {200, 204}
    /\ resp'.op = resp.op
    /\ CallOf(resp') = CallOf(resp)

\* C31: activate, deactivate, edit, report softDelete, image softDelete and
\* requestUpload are safely retryable: a call repeated with the same
\* arguments after the first one took effect leaves every table as the
\* first call left it; in particular a repeated requestUpload registers no
\* further image.
C31_RetryLeavesStateOfOneCall ==
    [][RetriedAfterEffect
          => /\ reports' = reports
             /\ report_images' = report_images
             /\ trainer_client' = trainer_client
             /\ users' = users]_vars

-----------------------------------------------------------------------------
(* Retention *)

\* The image record is not deleted and was created more than 180 days
\* before instant t.
OlderThanRetention(row, t) ==
    /\ ~row.is_deleted
    /\ EraOf(t) = 1
    /\ EraOf(row.created_at) = 0
    /\ row.created_at < MsInEra(t)

\* The age of the image record at instant t: "less", "equal" or "more"
\* than 180 days.
AgeAgainstRetention(row, t) ==
    IF EraOf(row.created_at) = EraOf(t) THEN "less"
    ELSE IF row.created_at < MsInEra(t) THEN "more"
    ELSE IF row.created_at = MsInEra(t) THEN "equal"
    ELSE "less"

\* C32: the retention sweep soft-deletes exactly the non-deleted images
\* created more than 180 days before the sweep, setting is_deleted and
\* deleted_at together; images 180 days old or younger and images already
\* deleted, their deleted_at included, stay as they are, and no image is
\* added or removed.
C32_SweepDeletesOldImagesOnly ==
    [][resp'.op = "sweep"
          => /\ Len(report_images') = Len(report_images)
             /\ \A i \in 1..Len(report_images) :
                   IF OlderThanRetention(report_images[i], Now)
                   THEN report_images'[i] =
                           [report_images[i] EXCEPT !.is_deleted = TRUE,
                                                    !.deleted_at = Some(Now)]
                   ELSE report_images'[i] = report_images[i]]_vars

\* A sweep has just run and deleted an image, while another image is
\* exactly 180 days old and not deleted, another one is younger and not
\* deleted, and one deleted by the client before the sweep keeps its
\* deleted_at.
C32_Witness ==
    /\ resp.op = "sweep"
    /\ \E i \in 1..Len(report_images) :
          /\ report_images[i].is_deleted
          /\ report_images[i].deleted_at = Some(Now)
          /\ AgeAgainstRetention(report_images[i], Now) = "more"
    /\ \E i \in 1..Len(report_images) :
          /\ ~report_images[i].is_deleted
          /\ AgeAgainstRetention(report_images[i], Now) = "equal"
    /\ \E i \in 1..Len(report_images) :
          /\ ~report_images[i].is_deleted
          /\ AgeAgainstRetention(report_images[i], Now) = "less"
    /\ \E i \in 1..Len(report_images) :
          /\ report_images[i].is_deleted
          /\ report_images[i].deleted_at # Null
          /\ Val(report_images[i].deleted_at) < Now

-----------------------------------------------------------------------------
(* Profiles and their extensions *)

\* The user has a row of the extension table.
HasExtension(table, id) == table[id] # NoRow

\* C33: in every reachable state each non-deleted user with role trainer
\* has a row of trainers and none of clients, each user with role client
\* has a row of clients and none of trainers, and each user with role
\* super_admin has neither.
C33_ExtensionMatchesRole ==
    \A id \in AllUserIds :
        users[id] # NoRow
        => /\ (users[id].role = "trainer" /\ IsNull(users[id].deleted_at))
                => (HasExtension(trainers, id) /\ ~HasExtension(clients, id))
           /\ users[id].role = "client"
                => (HasExtension(clients, id) /\ ~HasExtension(trainers, id))
           /\ users[id].role = "super_admin"
                => (~HasExtension(clients, id) /\ ~HasExtension(trainers, id))

\* C34: the invitation is fire-and-forget for the creation of coaches and
\* of clients: a create call whose invitation failed after the rows were
\* stored still answers with the created profile, and a create call that
\* answers with an error leaves no row of users, trainers, clients or
\* trainer_client behind.
C34_InvitationIsFireAndForget ==
    [][resp'.op \in {"createTrainer", "createClient"}
          => /\ ~resp'.invited => resp'.status = 201
             /\ resp'.status # 201
                  => /\ users' = users
                     /\ trainers' = trainers
                     /\ clients' = clients
                     /\ trainer_client' = trainer_client]_vars

-----------------------------------------------------------------------------
(* Soft-deleted reports *)

\* The report id names a stored row whose deleted_at is set.
SoftDeleted(reportId) ==
    reportId \in 1..Len(reports) /\ ~IsNull(reports[reportId].deleted_at)

\* The rows of the client that are not deleted and carry the week key
\* submit derives at instant t.
VisibleInWeek(clientId, t) ==
    {r \in 1..Len(reports) :
        /\ reports[r].client_id = clientId
        /\ IsNull(reports[r].deleted_at)
        /\ reports[r].year = getCurrentWeekInfo(t).year
        /\ reports[r].week_number = getCurrentWeekInfo(t).weekNumber}

\* C35: a soft-deleted report stays deleted and invisible: no step changes
\* the deleted_at of a deleted report; get, edit, softDelete and
\* requestUpload on it fail for every caller, admin included; a list
\* holds no deleted report, the trends hold the values of the non-deleted
\* reports only, and a submit is refused for the quota only when two
\* non-deleted reports of the week exist.
C35_DeletedReportStaysInvisible ==
    [][/\ \A r \in 1..Len(reports) :
             SoftDeleted(r) => reports'[r].deleted_at = reports[r].deleted_at
       /\ (resp'.op \in {"get", "edit", "softDelete", "requestUpload"}
              /\ SoftDeleted(resp'.report))
            => /\ resp'.status \notin {200, 201, 204}
               /\ reports' = reports
               /\ report_images' = report_images
       /\ (resp'.op = "list" /\ resp'.status = 200)
            => /\ \A j \in 1..Len(resp'.data) : ~SoftDeleted(resp'.data[j].id)
               /\ resp'.meta.totalItems =
                     Cardinality({r \in 1..Len(reports) :
                         reports[r].client_id = resp'.client /\ ~SoftDeleted(r)})
       /\ (resp'.op = "trends" /\ resp'.status = 200)
            => \A m \in DOMAIN resp'.trends :
                   resp'.trends[m] = NonNullValues(resp'.client, m, Len(reports))
       /\ (resp'.op = "submit" /\ resp'.status = 409)
            => Cardinality(VisibleInWeek(resp'.client, Now)) >= 2]_vars

\* The admin has just been refused the edit of a deleted report, while the
\* client has another report that is not deleted and the deleted report
\* carries an image.
C35_Witness ==
    /\ resp.op = "edit"
    /\ resp.user = "a1"
    /\ resp.status = 403
    /\ SoftDeleted(resp.report)
    /\ \E r \in 1..Len(reports) : ~SoftDeleted(r)
    /\ \E i \in 1..Len(report_images) : report_images[i].report_id = resp.report

-----------------------------------------------------------------------------
(* Week keys *)

\* C36: the year and week_number stored on a report are the pair submit
\* derived for its quota count and its sequence, so that a later submit of
\* the same week, by submit's derivation, counts the row: after a submit
\* that stored a report, the new row is among the rows the quota query of
\* the same instant finds.
C36_StoredWeekIsSubmitWeek ==
    [][(resp'.op = "submit" /\ resp'.status = 201)
          => /\ reports'[resp'.report].year = getCurrentWeekInfo(Now).year
             /\ reports'[resp'.report].week_number = getCurrentWeekInfo(Now).weekNumber
             /\ \E r \in 1..Len(reports') :
                   /\ r = resp'.report
                   /\ reports'[r].client_id = resp'.client
                   /\ IsNull(reports'[r].deleted_at)
                   /\ reports'[r].year = getCurrentWeekInfo(Now).year
                   /\ reports'[r].week_number = getCurrentWeekInfo(Now).weekNumber]_vars

\* The soft-deleted rows of the client that carry the week key submit
\* derives at instant t.
DeletedInWeek(clientId, t) ==
    {r \in 1..Len(reports) :
        /\ reports[r].client_id = clientId
        /\ ~IsNull(reports[r].deleted_at)
        /\ reports[r].year = getCurrentWeekInfo(t).year
        /\ reports[r].week_number = getCurrentWeekInfo(t).weekNumber}

\* C37: with requests served one at a time, a submit that passes its
\* checks while the client has a soft-deleted report of the current week
\* and fewer than two non-deleted ones is stored, under a sequence no row
\* of the client and week holds, deleted rows included; it does not fail
\* on the unique key.
C37_SubmitAfterDeleteIsStored ==
    [][(/\ resp'.op = "submit"
        /\ resp'.status \in {201, InsertErrorStatus}
        /\ DeletedInWeek(resp'.client, Now) # {}
        /\ Cardinality(VisibleInWeek(resp'.client, Now)) < 2)
          => /\ resp'.status = 201
             /\ Len(reports') = Len(reports) + 1
             /\ \A r \in DeletedInWeek(resp'.client, Now)
                        \cup VisibleInWeek(resp'.client, Now) :
                   reports[r].sequence # reports'[Len(reports')].sequence]_vars

-----------------------------------------------------------------------------
(* Stored values *)

\* C38: submit stores every supplied measurement, cardio_days and note as
\* given and null for the fields left out; a supplied 0 is stored as 0.
C38_SubmitStoresValuesAsGiven ==
    [][(resp'.op = "submit" /\ resp'.status = 201)
          => \A f \in ContentFields :
                 reports'[resp'.report].content[f] =
                     (IF f \in DOMAIN resp'.body THEN resp'.body[f] ELSE Null)]_vars

-----------------------------------------------------------------------------
(* Registration of images *)

\* C39: requestUpload answers with an image id and a storage path exactly
\* when it has registered a non-deleted image record with that id, the
\* report id and the storage path: a successful call appends that record
\* and changes no other, and a call that answers with an error names no
\* image and leaves report_images as it was.
C39_UploadReturnsIffRegistered ==
    [][resp'.op = "requestUpload"
          => IF resp'.status = 200
             THEN /\ Len(report_images') = Len(report_images) + 1
                  /\ SubSeq(report_images', 1, Len(report_images)) = report_images
                  /\ resp'.image = Len(report_images')
                  /\ report_images'[resp'.image].report_id = resp'.report
                  /\ report_images'[resp'.image].storage_path = resp'.storagePath
                  /\ resp'.storagePath[3] = resp'.image
                  /\ ~report_images'[resp'.image].is_deleted
             ELSE /\ resp'.image = 0
                  /\ resp'.storagePath = <<>>
                  /\ report_images' = report_images]_vars

\* An upload has just been granted for the third non-deleted image of a
\* report, registered under the id and path answered, after another image
\* of the report was deleted.
C39_Witness ==
    /\ resp.op = "requestUpload"
    /\ resp.status = 200
    /\ report_images[resp.image].report_id = resp.report
    /\ report_images[resp.image].storage_path = resp.storagePath
    /\ NonDeletedImages(resp.report) = 3
    /\ DeletedImages(resp.report) # {}

-----------------------------------------------------------------------------
(* Requests of a soft-deleted user *)

\* The profile of the user is soft-deleted.
ProfileDeleted(u) ==
    u \in AllUserIds /\ users[u] # NoRow /\ ~IsNull(users[u].deleted_at)

\* C40: once the profile of a user is soft-deleted it stays so, and every
\* request made afterwards with that identity is answered 401 and changes
\* no stored state, whether the caller is a coach whose assignment rows are
\* still active or a client submitting, editing or deleting reports.
C40_DeletedUserIsUnauthenticated ==
    [][/\ \A u \in AllUserIds : ProfileDeleted(u) => ~IsNull(users'[u].deleted_at)
       /\ (resp'.op # "none" /\ ProfileDeleted(resp'.user))
             => /\ resp'.status = 401
                /\ UNCHANGED <<users, trainers, clients, trainer_client,
                               reports, report_images>>]_vars

\* The soft-deleted coach t1, whose assignment to the client c1 is still
\* active, asked for the non-deleted report of c1 and was answered 401.
C40_Witness ==
    /\ resp.op = "get"
    /\ resp.user = "t1"
    /\ resp.status = 401
    /\ ProfileDeleted("t1")
    /\ ActiveAssignment("t1", "c1")
    /\ ~ProfileDeleted("c1")
    /\ Len(reports) >= 1
    /\ reports[1].client_id = "c1"
    /\ IsNull(reports[1].deleted_at)

====
